---- MODULE Spec2Model ----
(***************************************************************************)
(* Model of the Midware serial step-execution engine (src/src/midware.ts,  *)
(* class Midware at lines 239-521) and of the timeout wrapper              *)
(* (src/src/utils/with-timeout.ts).                                        *)
(*                                                                         *)
(* Arrays are modelled by reference (a small heap), because execute()      *)
(* iterates the array object returned by #getExecutableMiddlewares, which  *)
(* is the registry array itself when sorting is disabled.                  *)
(*                                                                         *)
(* Scheduling follows the JavaScript event loop: timer callbacks are       *)
(* macrotasks and run only when no promise continuation (microtask) of the *)
(* engine is pending.                                                      *)
(***************************************************************************)
EXTENDS Integers, Sequences, FiniteSets, TLC

VARIABLES
    arrays,          \* heap: array id -> sequence of registered callables
    midwares,        \* this.#midwares: id of the registry array
    sortedMidwares,  \* this.#sortedMidwares: id of the cached array, Null if null
    isDirty,         \* this.#isDirty
    options,         \* this.options
    sortOrder,       \* fn.__midwarePreExecuteSortOrder of each caller function
    duplicable,      \* fn.__midwareDuplicable of each caller function
    ret,             \* what the last call of the engine's API returned or threw
    run              \* the execute() calls: run id -> state of that call

vars == <<arrays, midwares, sortedMidwares, isDirty, options, sortOrder,
          duplicable, ret, run>>

----------------------------------------------------------------------------
(* Bounds *)

MaxLen == 3          \* longest registry explored
MaxMutations == 1    \* registry mutations explored while one run is in flight

(* The caller's functions, the timeouts it passes and the values steps return *)
Fns == {"A", "B", "C"}
TimeoutVals == {0, 20}
Values == {"undefined", "null", "val"}
Runs == {1, 2}

Null == 0
ArrIds == 1 .. (2 + Cardinality(Runs))

NoHint == -1         \* __midwarePreExecuteSortOrder is undefined
Infinity == 1000     \* the `?? Infinity` default of the comparator

StepTimeoutMsg == "Middleware execution timed out"
RunTimeoutMsg == "Execution timed out"

----------------------------------------------------------------------------
(* Settlements of promises *)

Pending == [kind |-> "pending", val |-> "-", msg |-> <<>>]
Fulfilled(v) == [kind |-> "fulfilled", val |-> v, msg |-> <<>>]
\* the error object thrown by the body of caller function f
StepError(f) == [kind |-> "rejected", val |-> "Error", msg |-> <<f>>]
\* faulty variant: errMessage is not looked at
TimeoutErrorDefaultMessage(errMessage, timeout) ==
    [kind |-> "rejected", val |-> "TimeoutError",
     msg |-> <<"Timed out after", timeout, "ms">>]

\* new TimeoutError(errMessage || `Timed out after ${timeout} ms`)
TimeoutError(errMessage, timeout) ==
    [kind |-> "rejected", val |-> "TimeoutError",
     msg |-> IF errMessage # "" THEN <<errMessage>>
             ELSE <<"Timed out after", timeout, "ms">>]

\* what the body of a step does when it is called
Behaviours ==
    {[kind |-> "throw", v |-> "-"], [kind |-> "async", v |-> "-"]}
        \cup {[kind |-> "return", v |-> v] : v \in Values}

\* how a step's pending promise may settle
Settlements(f) == {Fulfilled(v) : v \in Values} \cup {StepError(f)}

----------------------------------------------------------------------------
(* Callables stored in the registry: a caller function itself (d = 0) or a  *)
(* wrapper closure withTimeout(f, d, ...) (d > 0).  Every withTimeout call   *)
(* returns a new closure and use/unshift hand it to nobody, so a wrapper in  *)
(* the registry is the same reference as nothing a later call can pass.      *)

Raw(f) == [fn |-> f, d |-> 0]
Wrapped(f, d) == [fn |-> f, d |-> d]
IsWrapper(e) == e.d > 0

\* faulty variant: a wrapper is taken for the function it wraps
SameRefThroughWrapper(x, e) == x.fn = e.fn

\* strict equality of a registry element x and a value e handed to
\* includes / indexOf
SameRef(x, e) == ~IsWrapper(x) /\ ~IsWrapper(e) /\ x.fn = e.fn

\* faulty variant: the wrapper hands on the hint of the function it wraps
OrderOfThroughWrapper(e) == sortOrder[e.fn]

\* fn.__midwarePreExecuteSortOrder as the comparator reads it: a wrapper
\* closure is a new function object and carries no property of the original
OrderOf(e) == IF IsWrapper(e) THEN NoHint ELSE sortOrder[e.fn]

\* fn.__midwareDuplicable as #maybeDupesAssert reads it
DuplicableOf(e) == ~IsWrapper(e) /\ duplicable[e.fn]

----------------------------------------------------------------------------
(* Array helpers *)

\* Array.prototype.includes
Includes(s, e) == \E i \in 1 .. Len(s) : SameRef(s[i], e)

\* faulty variant: lastIndexOf
LastIndexOf(s, e) ==
    IF Includes(s, e)
    THEN CHOOSE i \in 1 .. Len(s) :
             SameRef(s[i], e) /\ \A j \in (i + 1) .. Len(s) : ~SameRef(s[j], e)
    ELSE 0

\* Array.prototype.indexOf, 1-based; 0 when absent (the code's -1)
IndexOf(s, e) ==
    IF Includes(s, e)
    THEN CHOOSE i \in 1 .. Len(s) :
             SameRef(s[i], e) /\ \A j \in 1 .. (i - 1) : ~SameRef(s[j], e)
    ELSE 0

\* Array.prototype.splice(index, 1)
Splice(s, i) == SubSeq(s, 1, i - 1) \o SubSeq(s, i + 1, Len(s))

\* faulty variant: b - a
CompareDescending(a, b) ==
    LET ka == IF OrderOf(a) = NoHint THEN Infinity ELSE OrderOf(a)
        kb == IF OrderOf(b) = NoHint THEN Infinity ELSE OrderOf(b)
    IN  IF ka = Infinity /\ kb = Infinity THEN 0 ELSE kb - ka

\* faulty variant: `?? 0` in place of `?? Infinity`
CompareUnhintedAsZero(a, b) ==
    LET ka == IF OrderOf(a) = NoHint THEN 0 ELSE OrderOf(a)
        kb == IF OrderOf(b) = NoHint THEN 0 ELSE OrderOf(b)
    IN  IF ka = Infinity /\ kb = Infinity THEN 0 ELSE ka - kb

\* the comparator of the sort: a - b with undefined read as Infinity;
\* Infinity - Infinity is NaN, which Array.prototype.sort treats as +0
Compare(a, b) ==
    LET ka == IF OrderOf(a) = NoHint THEN Infinity ELSE OrderOf(a)
        kb == IF OrderOf(b) = NoHint THEN Infinity ELSE OrderOf(b)
    IN  IF ka = Infinity /\ kb = Infinity THEN 0 ELSE ka - kb

\* insert e behind every element that does not sort after it
RECURSIVE InsertStable(_, _)
InsertStable(s, e) ==
    IF s = <<>> THEN <<e>>
    ELSE IF Compare(s[Len(s)], e) <= 0 THEN Append(s, e)
    ELSE Append(InsertStable(SubSeq(s, 1, Len(s) - 1), e), s[Len(s)])

\* [...this.#midwares].sort(comparator): Array.prototype.sort is stable
RECURSIVE SortedCopy(_)
SortedCopy(s) ==
    IF s = <<>> THEN <<>>
    ELSE InsertStable(SortedCopy(SubSeq(s, 1, Len(s) - 1)), s[Len(s)])

\* the arrays some engine field or running loop still references
LiveArrays(mw, sorted, rn) ==
    ({mw, sorted} \cup {rn[r].arr : r \in Runs}) \ {Null}

\* a fresh array object: the lowest id no reference points to
NewArray(live) == CHOOSE a \in ArrIds \ live : \A b \in ArrIds \ live : a <= b

\* unreferenced arrays are garbage
Collect(arrs, live) == [a \in ArrIds |-> IF a \in live THEN arrs[a] ELSE <<>>]

----------------------------------------------------------------------------
(* The timeout wrapper.  A race is the state of one call of a wrapped (or   *)
(* plain) operation: res is the settlement of the operation itself, timer   *)
(* the state of the wrapper's setTimeout, out what the caller of the        *)
(* returned promise observes.  A plain call has no timer and out = res.     *)

NoRace == [res |-> Pending, timer |-> "none", out |-> Pending]

\* faulty variant: the wrapper never calls setTimeout
StartRaceNoTimer(wrapped) ==
    [res |-> Pending, timer |-> "none", out |-> Pending]

\* the call has returned a pending promise; a wrapper has armed its timer
StartRace(wrapped) ==
    [res |-> Pending, timer |-> IF wrapped THEN "pending" ELSE "none",
     out |-> Pending]

\* faulty variant: a later settlement of the operation replaces the outcome
OpSettlesOverwrites(rc, s) ==
    [res |-> s,
     timer |-> IF rc.timer = "pending" THEN "cleared" ELSE rc.timer,
     out |-> s]

\* faulty variant: no clearTimeout when the operation wins
OpSettlesLeavesTimer(rc, s) ==
    [res |-> s,
     timer |-> rc.timer,
     out |-> IF rc.out = Pending THEN s ELSE rc.out]

\* faulty variant: clearTimeout in then() only, not when the operation rejects
OpSettlesClearsOnSuccess(rc, s) ==
    [res |-> s,
     timer |-> IF rc.timer = "pending" /\ s.kind = "fulfilled" THEN "cleared"
               ELSE rc.timer,
     out |-> IF rc.out = Pending THEN s ELSE rc.out]

\* the operation settles with s: the first settlement wins the race, and
\* finally() clears the timer before any timer callback can run
OpSettles(rc, s) ==
    [res |-> s,
     timer |-> IF rc.timer = "pending" THEN "cleared" ELSE rc.timer,
     out |-> IF rc.out = Pending THEN s ELSE rc.out]

\* faulty variant: the clock promise resolves instead of rejecting
TimerFiresResolves(rc, errMessage, timeout) ==
    [res |-> rc.res,
     timer |-> "fired",
     out |-> IF rc.out = Pending THEN Fulfilled("undefined") ELSE rc.out]

\* the setTimeout callback runs: _clock rejects; the operation is untouched
TimerFires(rc, errMessage, timeout) ==
    [res |-> rc.res,
     timer |-> "fired",
     out |-> IF rc.out = Pending THEN TimeoutError(errMessage, timeout)
             ELSE rc.out]

\* calling registered callable e whose body behaves as b
Call(e, b) ==
    IF b.kind = "throw"
    THEN \* fn(...args) throws before the wrapper creates its timer
         [res |-> StepError(e.fn), timer |-> "none", out |-> StepError(e.fn)]
    ELSE IF b.kind = "return"
    THEN OpSettles(StartRace(IsWrapper(e)), Fulfilled(b.v))
    ELSE StartRace(IsWrapper(e))

----------------------------------------------------------------------------
(* Arguments of execute(): a JavaScript value is an array of values or      *)
(* something that is not an array.                                          *)

Scalar(id) == [array |-> FALSE, id |-> id, elems |-> <<>>]
ArrayOf(elems) == [array |-> TRUE, id |-> "-", elems |-> elems]

\* faulty variant: args is left as the caller passed it
NormalizeArgsNoWrap(args) == args

\* if (!Array.isArray(args)) args = [args]
NormalizeArgs(args) == IF ~args.array THEN ArrayOf(<<args>>) ELSE args

\* midware(...args): the parameters the step is called with
Spread(args) == args.elems

----------------------------------------------------------------------------
(* One execute() call *)

IdleRun ==
    [pc |-> "idle", arr |-> Null, idx |-> 0, log |-> <<>>, race |-> NoRace,
     timeout |-> 0, snap |-> <<>>, mutations |-> 0, args |-> ArrayOf(<<>>)]

InFlight(rec) == rec.pc \in {"next", "await"}

\* faulty variant: the end of the loop settles the returned promise again
FinishOverwrites(rec, s) ==
    [rec EXCEPT !.pc = "done", !.arr = Null,
                !.race = [res |-> s,
                          timer |-> IF rec.race.timer = "pending" THEN "cleared"
                                    ELSE rec.race.timer,
                          out |-> s]]

\* faulty variant: the whole-run timer is left armed when _exec settles
FinishLeavesTimer(rec, s) ==
    [rec EXCEPT !.pc = "done", !.arr = Null,
                !.race = [res |-> s, timer |-> rec.race.timer,
                          out |-> IF rec.race.out = Pending THEN s
                                  ELSE rec.race.out]]

\* the async function _exec returns or throws: its promise settles
Finish(rec, s) ==
    [rec EXCEPT !.pc = "done", !.arr = Null, !.race = OpSettles(rec.race, s)]

\* faulty variant: the loop stops one element early
IterateSkipsLast(rec, content, b) ==
    IF rec.idx + 1 >= Len(content)
    THEN Finish(rec, Fulfilled("undefined"))
    ELSE LET inv == [e |-> content[rec.idx + 1],
                     race |-> Call(content[rec.idx + 1], b),
                     args |-> Spread(rec.args)]
         IN  [rec EXCEPT !.idx = rec.idx + 1,
                         !.log = Append(rec.log, inv),
                         !.pc = IF inv.race.out = Pending THEN "await"
                                ELSE "next"]

\* one step of `for (const midware of midwaresToExecute)`: the array
\* iterator reads the array as it is now, then the step is called
Iterate(rec, content, b) ==
    IF rec.idx >= Len(content)
    THEN Finish(rec, Fulfilled("undefined"))
    ELSE LET inv == [e |-> content[rec.idx + 1],
                     race |-> Call(content[rec.idx + 1], b),
                     args |-> Spread(rec.args)]
         IN  [rec EXCEPT !.idx = rec.idx + 1,
                         !.log = Append(rec.log, inv),
                         !.pc = IF inv.race.out = Pending THEN "await"
                                ELSE "next"]

\* no promise continuation of the engine is queued: macrotasks may run
Quiescent == \A r \in Runs : run[r].pc # "next"

----------------------------------------------------------------------------
(* Initial state: new Midware() *)

Init ==
    /\ arrays = [a \in ArrIds |-> <<>>]
    /\ midwares = 1
    /\ sortedMidwares = Null
    /\ isDirty = TRUE
    /\ options = [preExecuteSortEnabled |-> FALSE,
                  duplicatesCheckEnabled |-> FALSE]
    /\ sortOrder = [f \in Fns |-> IF f = "A" THEN 10
                                  ELSE IF f = "B" THEN 1 ELSE NoHint]
    /\ duplicable = [f \in Fns |-> FALSE]
    /\ ret = "none"
    /\ run = [r \in Runs |-> IdleRun]

----------------------------------------------------------------------------
(* Registry operations *)

NotAFunction == "notAFunction"
Args == Fns \cup {NotAFunction}

\* #assertValidMidware
IsFunction(m) == m \in Fns

\* faulty variant: `timeout !== 0`
MaybeWithTimeoutNonZero(f, timeout) ==
    IF timeout # 0 THEN Wrapped(f, timeout) ELSE Raw(f)

\* #maybeWithTimeout: a positive timeout stores a new wrapper closure
MaybeWithTimeout(f, timeout) ==
    IF timeout > 0 THEN Wrapped(f, timeout) ELSE Raw(f)

\* faulty variant: the registry is not searched
DupesRejectedNever(e) == FALSE

\* faulty variant: __midwareDuplicable is not looked at
DupesRejectedExemptToo(e) ==
    /\ options.duplicatesCheckEnabled
    /\ Includes(arrays[midwares], e)

\* #maybeDupesAssert throws
DupesRejected(e) ==
    /\ ~(DuplicableOf(e) \/ ~options.duplicatesCheckEnabled)
    /\ Includes(arrays[midwares], e)

\* a registry mutation is counted against the loops still running
NoteMutation(rn) ==
    [r \in Runs |-> IF InFlight(rn[r])
                    THEN [rn[r] EXCEPT !.mutations = rn[r].mutations + 1]
                    ELSE rn[r]]

\* faulty variant: the mutation leaves the cache as it is
MarkDirtyKeepsCache(content) ==
    /\ run' = NoteMutation(run)
    /\ arrays' = Collect([arrays EXCEPT ![midwares] = content],
                         LiveArrays(midwares, sortedMidwares, run))
    /\ UNCHANGED <<midwares, sortedMidwares, isDirty, options, sortOrder,
                   duplicable>>

\* faulty variant: the cache is dropped only while sorting is enabled
MarkDirtyOnlyWhenSorting(content) ==
    /\ isDirty' = (isDirty \/ options.preExecuteSortEnabled)
    /\ sortedMidwares' = IF options.preExecuteSortEnabled THEN Null
                          ELSE sortedMidwares
    /\ run' = NoteMutation(run)
    /\ arrays' = Collect([arrays EXCEPT ![midwares] = content],
                         LiveArrays(midwares, sortedMidwares', run))
    /\ UNCHANGED <<midwares, options, sortOrder, duplicable>>

\* #markDirty after the registry array became content
MarkDirty(content) ==
    /\ isDirty' = TRUE
    /\ sortedMidwares' = Null
    /\ run' = NoteMutation(run)
    /\ arrays' = Collect([arrays EXCEPT ![midwares] = content],
                         LiveArrays(midwares, Null, run))
    /\ UNCHANGED <<midwares, options, sortOrder, duplicable>>

\* faulty variant: the argument is stored before it is validated
RegisterValidatesLate(m, timeout, atFront) ==
    IF ~IsFunction(m)
    THEN /\ Len(arrays[midwares]) < MaxLen
         /\ ret' = "TypeError"
         /\ MarkDirty(IF atFront THEN <<Raw(m)>> \o arrays[midwares]
                      ELSE Append(arrays[midwares], Raw(m)))
    ELSE IF DupesRejected(MaybeWithTimeout(m, timeout))
    THEN /\ ret' = "DuplicateError"
         /\ UNCHANGED <<arrays, midwares, sortedMidwares, isDirty, options,
                        sortOrder, duplicable, run>>
    ELSE /\ Len(arrays[midwares]) < MaxLen
         /\ ret' = "ok"
         /\ MarkDirty(IF atFront
                      THEN <<MaybeWithTimeout(m, timeout)>> \o arrays[midwares]
                      ELSE Append(arrays[midwares],
                                  MaybeWithTimeout(m, timeout)))

\* faulty variant: unshift pushes like use
RegisterAlwaysAppends(m, timeout, atFront) ==
    IF ~IsFunction(m)
    THEN /\ ret' = "TypeError"
         /\ UNCHANGED <<arrays, midwares, sortedMidwares, isDirty, options,
                        sortOrder, duplicable, run>>
    ELSE IF DupesRejected(MaybeWithTimeout(m, timeout))
    THEN /\ ret' = "DuplicateError"
         /\ UNCHANGED <<arrays, midwares, sortedMidwares, isDirty, options,
                        sortOrder, duplicable, run>>
    ELSE /\ Len(arrays[midwares]) < MaxLen
         /\ ret' = "ok"
         /\ MarkDirty(Append(arrays[midwares], MaybeWithTimeout(m, timeout)))

\* faulty variant: the registry is searched for the function, not the wrapper
RegisterChecksOriginal(m, timeout, atFront) ==
    IF ~IsFunction(m)
    THEN /\ ret' = "TypeError"
         /\ UNCHANGED <<arrays, midwares, sortedMidwares, isDirty, options,
                        sortOrder, duplicable, run>>
    ELSE IF DupesRejected(Raw(m))
    THEN /\ ret' = "DuplicateError"
         /\ UNCHANGED <<arrays, midwares, sortedMidwares, isDirty, options,
                        sortOrder, duplicable, run>>
    ELSE /\ Len(arrays[midwares]) < MaxLen
         /\ ret' = "ok"
         /\ MarkDirty(IF atFront
                      THEN <<MaybeWithTimeout(m, timeout)>> \o arrays[midwares]
                      ELSE Append(arrays[midwares],
                                  MaybeWithTimeout(m, timeout)))

\* use / unshift, which differ in where the callable is inserted:
\* this.#midwares.push(e) or this.#midwares.unshift(e)
Register(m, timeout, atFront) ==
    IF ~IsFunction(m)
    THEN /\ ret' = "TypeError"
         /\ UNCHANGED <<arrays, midwares, sortedMidwares, isDirty, options,
                        sortOrder, duplicable, run>>
    ELSE IF DupesRejected(MaybeWithTimeout(m, timeout))
    THEN /\ ret' = "DuplicateError"
         /\ UNCHANGED <<arrays, midwares, sortedMidwares, isDirty, options,
                        sortOrder, duplicable, run>>
    ELSE /\ Len(arrays[midwares]) < MaxLen
         /\ ret' = "ok"
         /\ MarkDirty(IF atFront
                      THEN <<MaybeWithTimeout(m, timeout)>> \o arrays[midwares]
                      ELSE Append(arrays[midwares],
                                  MaybeWithTimeout(m, timeout)))

Use(m, timeout) == Register(m, timeout, FALSE)

Unshift(m, timeout) == Register(m, timeout, TRUE)

Remove(f) ==
    LET index == IndexOf(arrays[midwares], Raw(f))
    IN  IF index # 0
        THEN /\ ret' = "true"
             /\ MarkDirty(Splice(arrays[midwares], index))
        ELSE /\ ret' = "false"
             /\ UNCHANGED <<arrays, midwares, sortedMidwares, isDirty, options,
                            sortOrder, duplicable, run>>

\* faulty variant: clear() leaves the cached order in place
ClearKeepsCache ==
    LET fresh == NewArray(LiveArrays(Null, sortedMidwares, run))
    IN  /\ midwares' = fresh
        /\ run' = NoteMutation(run)
        /\ arrays' = Collect([arrays EXCEPT ![fresh] = <<>>],
                             LiveArrays(fresh, sortedMidwares, run))
        /\ ret' = "ok"
        /\ UNCHANGED <<sortedMidwares, isDirty, options, sortOrder,
                       duplicable>>

\* this.#midwares = [] is a new array object; loops holding the old one keep it
Clear ==
    LET fresh == NewArray(LiveArrays(Null, Null, run))
    IN  /\ midwares' = fresh
        /\ isDirty' = TRUE
        /\ sortedMidwares' = Null
        /\ run' = NoteMutation(run)
        /\ arrays' = Collect([arrays EXCEPT ![fresh] = <<>>],
                             LiveArrays(fresh, Null, run))
        /\ ret' = "ok"
        /\ UNCHANGED <<options, sortOrder, duplicable>>

\* the caller assigns this.options
SetOptions(sort, dupes) ==
    /\ options' = [preExecuteSortEnabled |-> sort,
                   duplicatesCheckEnabled |-> dupes]
    /\ options' # options
    /\ UNCHANGED <<arrays, midwares, sortedMidwares, isDirty, sortOrder,
                   duplicable, ret, run>>

\* faulty variant: assigning a hint drops the cached order
SetHintMarksDirty(f, h) ==
    /\ sortOrder' = [sortOrder EXCEPT ![f] = h]
    /\ sortOrder' # sortOrder
    /\ isDirty' = TRUE
    /\ sortedMidwares' = Null
    /\ arrays' = Collect(arrays, LiveArrays(midwares, Null, run))
    /\ UNCHANGED <<midwares, options, duplicable, ret, run>>

\* the caller assigns f.__midwarePreExecuteSortOrder (NoHint: deletes it)
SetHint(f, h) ==
    /\ sortOrder' = [sortOrder EXCEPT ![f] = h]
    /\ sortOrder' # sortOrder
    /\ UNCHANGED <<arrays, midwares, sortedMidwares, isDirty, options,
                   duplicable, ret, run>>

----------------------------------------------------------------------------
(* Execution *)

\* faulty variant: the cached order is never returned
GetExecutableMiddlewaresAlwaysSorts ==
    IF ~options.preExecuteSortEnabled
    THEN [arr |-> midwares, sorted |-> sortedMidwares, dirty |-> isDirty,
          heap |-> arrays]
    ELSE LET fresh == NewArray(LiveArrays(midwares, sortedMidwares, run))
         IN  [arr |-> fresh, sorted |-> fresh, dirty |-> FALSE,
              heap |-> [arrays EXCEPT ![fresh] = SortedCopy(arrays[midwares])]]

\* faulty variant: preExecuteSortEnabled is not looked at
GetExecutableMiddlewaresIgnoresOption ==
    IF ~isDirty /\ sortedMidwares # Null
    THEN [arr |-> sortedMidwares, sorted |-> sortedMidwares, dirty |-> isDirty,
          heap |-> arrays]
    ELSE LET fresh == NewArray(LiveArrays(midwares, sortedMidwares, run))
         IN  [arr |-> fresh, sorted |-> fresh, dirty |-> FALSE,
              heap |-> [arrays EXCEPT ![fresh] = SortedCopy(arrays[midwares])]]

\* faulty variant: this.#midwares.sort(...) without the copy
GetExecutableMiddlewaresSortsInPlace ==
    IF ~options.preExecuteSortEnabled
    THEN [arr |-> midwares, sorted |-> sortedMidwares, dirty |-> isDirty,
          heap |-> arrays]
    ELSE IF ~isDirty /\ sortedMidwares # Null
    THEN [arr |-> sortedMidwares, sorted |-> sortedMidwares, dirty |-> isDirty,
          heap |-> arrays]
    ELSE [arr |-> midwares, sorted |-> midwares, dirty |-> FALSE,
          heap |-> [arrays EXCEPT ![midwares] = SortedCopy(arrays[midwares])]]

\* #getExecutableMiddlewares: the array the run iterates, the cache fields
\* and the heap afterwards
GetExecutableMiddlewares ==
    IF ~options.preExecuteSortEnabled
    THEN [arr |-> midwares, sorted |-> sortedMidwares, dirty |-> isDirty,
          heap |-> arrays]
    ELSE IF ~isDirty /\ sortedMidwares # Null
    THEN [arr |-> sortedMidwares, sorted |-> sortedMidwares, dirty |-> isDirty,
          heap |-> arrays]
    ELSE \* the copy is allocated before the field is assigned
         LET fresh == NewArray(LiveArrays(midwares, sortedMidwares, run))
         IN  [arr |-> fresh, sorted |-> fresh, dirty |-> FALSE,
              heap |-> [arrays EXCEPT ![fresh] = SortedCopy(arrays[midwares])]]

\* execute(args, timeout): normalises args, selects the sequence, runs the
\* loop up to its first await and arms the whole-run timer when timeout > 0
ExecuteArgs(r, args, timeout, b) ==
    /\ run[r].pc = "idle"
    /\ LET sel == GetExecutableMiddlewares
           start == [pc |-> "next", arr |-> sel.arr, idx |-> 0, log |-> <<>>,
                     race |-> StartRace(timeout > 0), timeout |-> timeout,
                     snap |-> sel.heap[sel.arr], mutations |-> 0,
                     args |-> NormalizeArgs(args)]
       IN  /\ run' = [run EXCEPT ![r] = Iterate(start, sel.heap[sel.arr], b)]
           /\ sortedMidwares' = sel.sorted
           /\ isDirty' = sel.dirty
           /\ arrays' = Collect(sel.heap,
                                LiveArrays(midwares, sel.sorted, run'))
    /\ ret' = "promise"
    /\ UNCHANGED <<midwares, options, sortOrder, duplicable>>

\* execute([], timeout)
Execute(r, timeout, b) == ExecuteArgs(r, ArrayOf(<<>>), timeout, b)

LastOut(rec) == rec.log[Len(rec.log)].race.out

\* faulty variant: the loop catches and drops what a step throws
ThrowsSwallowed(out) == FALSE

\* `await midware(...args)` throws: the step threw or its promise rejected
Throws(out) == out.kind = "rejected"

\* faulty variant: `result != undefined`, which null does not satisfy
IsTerminationSignalLoose(out) ==
    out.kind = "fulfilled" /\ out.val \notin {"undefined", "null"}

\* `result !== undefined`
IsTerminationSignal(out) == out.kind = "fulfilled" /\ out.val # "undefined"

\* faulty variant: a step that ends one run ends every run in flight
LoopReturnEndsAll(r) ==
    /\ run[r].pc = "next"
    /\ Throws(LastOut(run[r])) \/ IsTerminationSignal(LastOut(run[r]))
    /\ run' = [q \in Runs |->
                   IF q = r \/ InFlight(run[q])
                   THEN Finish(run[q], LastOut(run[r])) ELSE run[q]]
    /\ arrays' = Collect(arrays, LiveArrays(midwares, sortedMidwares, run'))
    /\ UNCHANGED <<midwares, sortedMidwares, isDirty, options, sortOrder,
                   duplicable, ret>>

\* the awaited step threw or returned something other than undefined
LoopReturn(r) ==
    /\ run[r].pc = "next"
    /\ Throws(LastOut(run[r])) \/ IsTerminationSignal(LastOut(run[r]))
    /\ run' = [run EXCEPT ![r] = Finish(run[r], LastOut(run[r]))]
    /\ arrays' = Collect(arrays, LiveArrays(midwares, sortedMidwares, run'))
    /\ UNCHANGED <<midwares, sortedMidwares, isDirty, options, sortOrder,
                   duplicable, ret>>

\* faulty variant: the step is called without awaiting the previous one
LoopNextNoAwait(r, b) ==
    /\ run[r].pc \in {"next", "await"}
    /\ LastOut(run[r]) \in {Fulfilled("undefined"), Pending}
    /\ run' = [run EXCEPT ![r] = Iterate(run[r], arrays[run[r].arr], b)]
    /\ arrays' = Collect(arrays, LiveArrays(midwares, sortedMidwares, run'))
    /\ UNCHANGED <<midwares, sortedMidwares, isDirty, options, sortOrder,
                   duplicable, ret>>

\* faulty variant: the loop is abandoned once the whole-run timer has fired
LoopNextStopsOnTimeout(r, b) ==
    /\ run[r].pc = "next"
    /\ run[r].race.timer # "fired"
    /\ ~Throws(LastOut(run[r])) /\ ~IsTerminationSignal(LastOut(run[r]))
    /\ run' = [run EXCEPT ![r] = Iterate(run[r], arrays[run[r].arr], b)]
    /\ arrays' = Collect(arrays, LiveArrays(midwares, sortedMidwares, run'))
    /\ UNCHANGED <<midwares, sortedMidwares, isDirty, options, sortOrder,
                   duplicable, ret>>

\* the awaited step returned undefined: next iteration
LoopNext(r, b) ==
    /\ run[r].pc = "next"
    /\ ~Throws(LastOut(run[r])) /\ ~IsTerminationSignal(LastOut(run[r]))
    /\ run' = [run EXCEPT ![r] = Iterate(run[r], arrays[run[r].arr], b)]
    /\ arrays' = Collect(arrays, LiveArrays(midwares, sortedMidwares, run'))
    /\ UNCHANGED <<midwares, sortedMidwares, isDirty, options, sortOrder,
                   duplicable, ret>>

\* the promise returned by the body of step i settles with s
StepSettles(r, i, s) ==
    /\ i \in 1 .. Len(run[r].log)
    /\ run[r].log[i].race.res = Pending
    /\ s \in Settlements(run[r].log[i].e.fn)
    /\ run' = [run EXCEPT ![r].log[i].race = OpSettles(@, s),
                          ![r].pc = IF run[r].log[i].race.out = Pending
                                    THEN "next" ELSE @]
    /\ UNCHANGED <<arrays, midwares, sortedMidwares, isDirty, options,
                   sortOrder, duplicable, ret>>

\* the per-step timer of the wrapper called as step i fires
StepTimerFires(r, i) ==
    /\ i \in 1 .. Len(run[r].log)
    /\ run[r].log[i].race.timer = "pending"
    /\ Quiescent
    /\ run' = [run EXCEPT ![r].log[i].race =
                              TimerFires(@, StepTimeoutMsg, run[r].log[i].e.d),
                          ![r].pc = IF run[r].log[i].race.out = Pending
                                    THEN "next" ELSE @]
    /\ UNCHANGED <<arrays, midwares, sortedMidwares, isDirty, options,
                   sortOrder, duplicable, ret>>

\* faulty variant: the callback of the whole-run timer rejects nothing
RunTimerFiresRejectsNothing(r) ==
    /\ run[r].race.timer = "pending"
    /\ Quiescent
    /\ run' = [run EXCEPT ![r].race.timer = "fired"]
    /\ UNCHANGED <<arrays, midwares, sortedMidwares, isDirty, options,
                   sortOrder, duplicable, ret>>

\* the whole-run timer fires
RunTimerFires(r) ==
    /\ run[r].race.timer = "pending"
    /\ Quiescent
    /\ run' = [run EXCEPT ![r].race =
                              TimerFires(@, RunTimeoutMsg, run[r].timeout)]
    /\ UNCHANGED <<arrays, midwares, sortedMidwares, isDirty, options,
                   sortOrder, duplicable, ret>>

\* the caller lets go of a run whose loop has ended; work still running in
\* the background is no longer observed
Forget(r) ==
    /\ run[r].pc = "done"
    /\ run' = [run EXCEPT ![r] = IdleRun]
    /\ UNCHANGED <<arrays, midwares, sortedMidwares, isDirty, options,
                   sortOrder, duplicable, ret>>

----------------------------------------------------------------------------
(* The caller.  Between runs it makes any registry call; it lets go of a    *)
(* finished run before it goes on.                                          *)

CallerIdle == \A r \in Runs : run[r].pc = "idle"

\* a caller (or a step) that also makes registry calls while a loop runs
CallerReady ==
    \A r \in Runs : /\ run[r].pc # "done"
                    /\ run[r].mutations < MaxMutations

LoopSteps(r) ==
    \/ LoopReturn(r)
    \/ \E b \in Behaviours : LoopNext(r, b)
    \/ \E i \in 1 .. Len(run[r].log) :
           \E s \in Settlements(run[r].log[i].e.fn) : StepSettles(r, i, s)
    \/ Forget(r)

TimerSteps(r) ==
    \/ \E i \in 1 .. Len(run[r].log) : StepTimerFires(r, i)
    \/ RunTimerFires(r)

\* one run at a time, registry calls between runs
Next ==
    \/ CallerIdle /\ \E m \in Args, t \in TimeoutVals : Use(m, t)
    \/ CallerIdle /\ \E m \in Args, t \in TimeoutVals : Unshift(m, t)
    \/ CallerIdle /\ \E f \in Fns : Remove(f)
    \/ CallerIdle /\ Clear
    \/ CallerIdle /\ \E s, d \in BOOLEAN : SetOptions(s, d)
    \/ \E t \in TimeoutVals, b \in Behaviours : Execute(1, t, b)
    \/ LoopSteps(1)
    \/ TimerSteps(1)

Spec == Init /\ [][Next]_vars

\* registry calls also while the run is in flight (plain steps, no timers)
NextReentrant ==
    \/ CallerReady /\ \E m \in Fns : Use(m, 0)
    \/ CallerReady /\ \E m \in Fns : Unshift(m, 0)
    \/ CallerReady /\ \E f \in Fns : Remove(f)
    \/ CallerReady /\ Clear
    \/ CallerReady /\ \E s \in BOOLEAN : SetOptions(s, FALSE)
    \/ \E b \in Behaviours : Execute(1, 0, b)
    \/ LoopSteps(1)

SpecReentrant == Init /\ [][NextReentrant]_vars

\* execute() called again while an earlier call is still running; registry
\* calls between the runs
NextConcurrent ==
    \/ CallerIdle /\ \E m \in Fns : Use(m, 0)
    \/ CallerIdle /\ \E f \in Fns : Remove(f)
    \/ CallerIdle /\ \E s \in BOOLEAN : SetOptions(s, FALSE)
    \/ \E r \in Runs, b \in Behaviours : Execute(r, 0, b)
    \/ \E r \in Runs : LoopSteps(r)

SpecConcurrent == Init /\ [][NextConcurrent]_vars

----------------------------------------------------------------------------
(* Sorting: the caller's functions carry any priority hints, among them     *)
(* equal hints, an explicit Infinity and none; steps are plain functions    *)
(* that return at once.                                                     *)

Hints == {1, 5, 10, Infinity, NoHint}

SyncBehaviours == {b \in Behaviours : b.kind = "return" /\ b.v # "null"}

InitSort ==
    /\ arrays = [a \in ArrIds |-> <<>>]
    /\ midwares = 1
    /\ sortedMidwares = Null
    /\ isDirty = TRUE
    /\ options = [preExecuteSortEnabled |-> FALSE,
                  duplicatesCheckEnabled |-> FALSE]
    /\ sortOrder \in [Fns -> Hints]
    /\ duplicable = [f \in Fns |-> FALSE]
    /\ ret = "none"
    /\ run = [r \in Runs |-> IdleRun]

NextSort ==
    \/ CallerIdle /\ \E m \in Fns : Use(m, 0)
    \/ CallerIdle /\ \E m \in Fns : Unshift(m, 0)
    \/ CallerIdle /\ \E f \in Fns : Remove(f)
    \/ CallerIdle /\ Clear
    \/ CallerIdle /\ \E s \in BOOLEAN : SetOptions(s, FALSE)
    \/ \E b \in SyncBehaviours : Execute(1, 0, b)
    \/ \E b \in SyncBehaviours : LoopNext(1, b)
    \/ LoopReturn(1)
    \/ Forget(1)

SpecSort == InitSort /\ [][NextSort]_vars

----------------------------------------------------------------------------
(* Duplicates: new Midware([], { duplicatesCheckEnabled }) with functions   *)
(* of which some are marked __midwareDuplicable; the options record is left *)
(* as constructed.                                                          *)

InitDupes ==
    /\ arrays = [a \in ArrIds |-> <<>>]
    /\ midwares = 1
    /\ sortedMidwares = Null
    /\ isDirty = TRUE
    /\ options \in [preExecuteSortEnabled : {FALSE},
                     duplicatesCheckEnabled : BOOLEAN]
    /\ sortOrder = [f \in Fns |-> NoHint]
    /\ duplicable \in [Fns -> BOOLEAN]
    /\ ret = "none"
    /\ run = [r \in Runs |-> IdleRun]

NextDupes ==
    \/ \E m \in Args : Use(m, 0)
    \/ \E m \in Args : Unshift(m, 0)
    \/ \E f \in Fns : Remove(f)
    \/ Clear

SpecDupes == InitDupes /\ [][NextDupes]_vars

----------------------------------------------------------------------------
(* The constructor called with an initial list: new Midware(list, options)  *)

\* the lists a caller may pass
Lists == UNION {[1 .. n -> Args] : n \in 0 .. MaxLen}

\* one round of `midwares.forEach((fn) => this.use(fn))`; a throw of use
\* ends the constructor
ConstructorUse(acc, m, dupes) ==
    IF acc.ret # "ok" THEN acc
    ELSE IF ~IsFunction(m) THEN [ret |-> "TypeError", midwares |-> <<>>]
    ELSE IF /\ ~(duplicable[m] \/ ~dupes)
            /\ \E i \in 1 .. Len(acc.midwares) : acc.midwares[i] = Raw(m)
    THEN [ret |-> "DuplicateError", midwares |-> <<>>]
    ELSE [ret |-> "ok", midwares |-> Append(acc.midwares, Raw(m))]

\* faulty variant: the list is stored as it is
ConstructorStoresList(list, dupes) ==
    [ret |-> "ok", midwares |-> [i \in 1 .. Len(list) |-> Raw(list[i])]]

\* what the constructor leaves in #midwares, or what it throws
RECURSIVE Constructor(_, _)
Constructor(list, dupes) ==
    IF list = <<>> THEN [ret |-> "ok", midwares |-> <<>>]
    ELSE ConstructorUse(Constructor(SubSeq(list, 1, Len(list) - 1), dupes),
                        list[Len(list)], dupes)

\* the engine after a constructor call that returned
InitConstructed ==
    /\ options \in [preExecuteSortEnabled : {FALSE},
                     duplicatesCheckEnabled : BOOLEAN]
    /\ duplicable \in [Fns -> BOOLEAN]
    /\ \E list \in Lists :
           /\ Constructor(list, options.duplicatesCheckEnabled).ret = "ok"
           /\ arrays = [a \in ArrIds |->
                           IF a = 1
                           THEN Constructor(list,
                                    options.duplicatesCheckEnabled).midwares
                           ELSE <<>>]
    /\ midwares = 1
    /\ sortedMidwares = Null
    /\ isDirty = TRUE
    /\ sortOrder = [f \in Fns |-> NoHint]
    /\ ret = "none"
    /\ run = [r \in Runs |-> IdleRun]

NextConstructed == \E m \in Args : Use(m, 0)

SpecConstructed == InitConstructed /\ [][NextConstructed]_vars

\* the same engine with the caller also assigning options.duplicatesCheckEnabled
\* and registering with per-step timeouts
NextOptions ==
    \/ \E m \in Fns, t \in TimeoutVals : Use(m, t)
    \/ \E m \in Fns, t \in TimeoutVals : Unshift(m, t)
    \/ \E f \in Fns : Remove(f)
    \/ Clear
    \/ \E d \in BOOLEAN : SetOptions(FALSE, d)

SpecOptions == InitDupes /\ [][NextOptions]_vars

\* the engine of InitDupes, options left as constructed, with registrations
\* that pass a per-step timeout
NextTimeoutDupes ==
    \/ \E m \in Fns, t \in TimeoutVals : Use(m, t)
    \/ \E m \in Fns, t \in TimeoutVals : Unshift(m, t)
    \/ \E f \in Fns : Remove(f)
    \/ Clear

SpecTimeoutDupes == InitDupes /\ [][NextTimeoutDupes]_vars

----------------------------------------------------------------------------
(* clear(), also called while a run is in flight, and execute() called      *)
(* again before the earlier run has ended; steps return at once.            *)

NextClear ==
    \/ CallerIdle /\ \E m \in Fns : Use(m, 0)
    \/ CallerReady /\ Clear
    \/ CallerIdle /\ \E s \in BOOLEAN : SetOptions(s, FALSE)
    \/ \E r \in Runs, b \in SyncBehaviours : Execute(r, 0, b)
    \/ \E r \in Runs, b \in SyncBehaviours : LoopNext(r, b)
    \/ \E r \in Runs : LoopReturn(r)
    \/ \E r \in Runs : Forget(r)

SpecClear == Init /\ [][NextClear]_vars

----------------------------------------------------------------------------
(* Durations of any sign, for registrations and for runs, on an engine      *)
(* constructed with duplicate rejection enabled; steps may stay pending.    *)

Durations == TimeoutVals \cup {-5}

InitDurations ==
    /\ arrays = [a \in ArrIds |-> <<>>]
    /\ midwares = 1
    /\ sortedMidwares = Null
    /\ isDirty = TRUE
    /\ options = [preExecuteSortEnabled |-> FALSE,
                  duplicatesCheckEnabled |-> TRUE]
    /\ sortOrder = [f \in Fns |-> NoHint]
    /\ duplicable = [f \in Fns |-> FALSE]
    /\ ret = "none"
    /\ run = [r \in Runs |-> IdleRun]

NextDurations ==
    \/ CallerIdle /\ \E m \in Fns, t \in Durations : Use(m, t)
    \/ CallerIdle /\ \E m \in Fns, t \in Durations : Unshift(m, t)
    \/ CallerIdle /\ \E f \in Fns : Remove(f)
    \/ \E t \in Durations, b \in Behaviours : Execute(1, t, b)
    \/ LoopSteps(1)
    \/ TimerSteps(1)

SpecDurations == InitDurations /\ [][NextDurations]_vars

----------------------------------------------------------------------------
(* Arguments: execute() called with arrays of none, one and two values and  *)
(* with values that are not arrays; steps return at once.                   *)

ArgValues ==
    {ArrayOf(<<>>), ArrayOf(<<Scalar("x")>>),
     ArrayOf(<<Scalar("x"), Scalar("y")>>),
     Scalar("ctx"), Scalar("undefined")}

NextArgs ==
    \/ CallerIdle /\ \E m \in Fns : Use(m, 0)
    \/ \E a \in ArgValues, b \in SyncBehaviours : ExecuteArgs(1, a, 0, b)
    \/ \E b \in SyncBehaviours : LoopNext(1, b)
    \/ LoopReturn(1)
    \/ Forget(1)

SpecArgs == Init /\ [][NextArgs]_vars

----------------------------------------------------------------------------
(* Hints assigned after registration: functions A and B get, lose and       *)
(* change their hint between runs; steps return at once.                    *)

AssignedHints == {1, 5, NoHint}

InitHints ==
    /\ arrays = [a \in ArrIds |-> <<>>]
    /\ midwares = 1
    /\ sortedMidwares = Null
    /\ isDirty = TRUE
    /\ options = [preExecuteSortEnabled |-> TRUE,
                  duplicatesCheckEnabled |-> FALSE]
    /\ sortOrder = [f \in Fns |-> NoHint]
    /\ duplicable = [f \in Fns |-> FALSE]
    /\ ret = "none"
    /\ run = [r \in Runs |-> IdleRun]

NextHints ==
    \/ CallerIdle /\ \E m \in Fns : Use(m, 0)
    \/ CallerIdle /\ \E m \in Fns : Unshift(m, 0)
    \/ CallerIdle /\ \E f \in Fns : Remove(f)
    \/ CallerIdle /\ Clear
    \/ CallerIdle /\ \E f \in {"A", "B"}, h \in AssignedHints : SetHint(f, h)
    \/ \E b \in SyncBehaviours : Execute(1, 0, b)
    \/ \E b \in SyncBehaviours : LoopNext(1, b)
    \/ LoopReturn(1)
    \/ Forget(1)

SpecHints == InitHints /\ [][NextHints]_vars

----------------------------------------------------------------------------
(* Progress: the event loop runs every continuation of the engine that is   *)
(* queued and every timer that is due; whether and when the promise of a    *)
(* step settles is up to the step.  Registry calls between runs only.       *)

NextLive ==
    \/ CallerIdle /\ \E m \in {"A", "B"}, t \in TimeoutVals : Use(m, t)
    \/ \E t \in TimeoutVals, b \in Behaviours : Execute(1, t, b)
    \/ LoopSteps(1)
    \/ TimerSteps(1)

SpecLive ==
    /\ Init /\ [][NextLive]_vars
    /\ WF_vars(LoopReturn(1))
    /\ WF_vars(\E b \in Behaviours : LoopNext(1, b))
    /\ WF_vars(RunTimerFires(1))
    /\ WF_vars(\E i \in 1 .. Len(run[1].log) : StepTimerFires(1, i))

----------------------------------------------------------------------------
(* Overlapping runs with timeouts: execute() is called again, with another  *)
(* argument, while an earlier call is still running; steps may stay         *)
(* pending.  The engine is constructed with sorting on or off; with sorting *)
(* on, where every run iterates a sorted copy, use() is also called while   *)
(* runs are in flight, so that overlapping runs select different sequences. *)

InitOverlap ==
    /\ arrays = [a \in ArrIds |-> <<>>]
    /\ midwares = 1
    /\ sortedMidwares = Null
    /\ isDirty = TRUE
    /\ options \in [preExecuteSortEnabled : BOOLEAN,
                     duplicatesCheckEnabled : {FALSE}]
    /\ sortOrder = [f \in Fns |-> NoHint]
    /\ duplicable = [f \in Fns |-> FALSE]
    /\ ret = "none"
    /\ run = [r \in Runs |-> IdleRun]

\* what the caller passes to execute() for run r
OwnArgs(r) == Scalar(IF r = 1 THEN "x" ELSE "y")

\* a step returns a value at once or a promise, which is fulfilled with
\* undefined or rejected, if it settles
OverlapBehaviours ==
    {b \in Behaviours : b.kind = "async" \/ (b.kind = "return" /\ b.v = "val")}
OverlapSettlements(f) == {Fulfilled("undefined"), StepError(f)}

NextOverlap ==
    \/ /\ CallerIdle \/ (options.preExecuteSortEnabled /\ CallerReady)
       /\ \E t \in TimeoutVals : Use("A", t)
    \/ \E r \in Runs, t \in TimeoutVals, b \in OverlapBehaviours :
           ExecuteArgs(r, OwnArgs(r), t, b)
    \/ \E r \in Runs : LoopReturn(r)
    \/ \E r \in Runs, b \in OverlapBehaviours : LoopNext(r, b)
    \/ \E r \in Runs : \E i \in 1 .. Len(run[r].log) :
           \E s \in OverlapSettlements(run[r].log[i].e.fn) : StepSettles(r, i, s)
    \/ \E r \in Runs : Forget(r)
    \/ \E r \in Runs : TimerSteps(r)

SpecOverlap == InitOverlap /\ [][NextOverlap]_vars

----------------------------------------------------------------------------
(* Per-step timeouts: registrations with and without one, of functions with *)
(* a finite hint, an explicit Infinity and none; registry calls also while  *)
(* the run is in flight; steps return at once.                              *)

InitWrapped ==
    /\ arrays = [a \in ArrIds |-> <<>>]
    /\ midwares = 1
    /\ sortedMidwares = Null
    /\ isDirty = TRUE
    /\ options = [preExecuteSortEnabled |-> FALSE,
                  duplicatesCheckEnabled |-> FALSE]
    /\ \E h \in {5, Infinity} :
           sortOrder = [f \in Fns |-> IF f = "A" THEN 1
                                      ELSE IF f = "B" THEN h ELSE NoHint]
    /\ duplicable = [f \in Fns |-> FALSE]
    /\ ret = "none"
    /\ run = [r \in Runs |-> IdleRun]

NextWrapped ==
    \/ CallerReady /\ \E m \in Fns, t \in TimeoutVals : Use(m, t)
    \/ CallerReady /\ \E f \in Fns : Remove(f)
    \/ CallerIdle /\ \E s \in BOOLEAN : SetOptions(s, FALSE)
    \/ \E b \in SyncBehaviours : Execute(1, 0, b)
    \/ \E b \in SyncBehaviours : LoopNext(1, b)
    \/ LoopReturn(1)
    \/ Forget(1)

SpecWrapped == InitWrapped /\ [][NextWrapped]_vars

----------------------------------------------------------------------------
(* Vocabulary of the properties *)

Started(r) == run[r].pc # "idle"
\* settlement of the sequential execution (the promise of the inner _exec)
Inner(r) == run[r].race.res
\* settlement of the promise execute() returned
Outcome(r) == run[r].race.out
RunTimer(r) == run[r].race.timer
StepCount(r) == Len(run[r].log)
\* what the engine's await on step i observed
StepOut(r, i) == run[r].log[i].race.out
StepRes(r, i) == run[r].log[i].race.res
StepTimer(r, i) == run[r].log[i].race.timer
StepOf(r, i) == run[r].log[i].e
\* the callables the run has invoked, in order of invocation
Invoked(r) == [i \in 1 .. StepCount(r) |-> StepOf(r, i)]
LoopDone(r) == run[r].pc = "done"
\* the same execute() call before and after a step of the system
SameRun(r) == Started(r) /\ run'[r].pc # "idle" /\ StepCount(r) <= Len(run'[r].log)

----------------------------------------------------------------------------
(* C1: in a run during which the registry is not mutated, when step k is    *)
(* the first step whose awaited result is not undefined (null included),    *)
(* the steps invoked are exactly the first k of the selected sequence, each *)
(* once and in order, no step after k is invoked, the sequential execution  *)
(* resolves to that value, and so does the run (unless its whole-run timer  *)
(* had already fired).                                                      *)
C1_FirstValueTerminates ==
    \A r \in Runs : \A k \in 1 .. StepCount(r) :
        run[r].mutations = 0 /\ IsTerminationSignal(StepOut(r, k))
        => /\ k = StepCount(r)
           /\ Invoked(r) = SubSeq(run[r].snap, 1, k)
           /\ \A i \in 1 .. (k - 1) : StepOut(r, i) = Fulfilled("undefined")
           /\ run[r].pc \in {"next", "done"}
           /\ LoopDone(r) => /\ Inner(r) = StepOut(r, k)
                             /\ RunTimer(r) # "fired"
                                    => Outcome(r) = StepOut(r, k)

\* the second of three steps returned null and ended the run with null
C1_Witness ==
    \E r \in Runs : /\ LoopDone(r)
                    /\ Len(run[r].snap) = 3
                    /\ StepCount(r) = 2
                    /\ StepOut(r, 2) = Fulfilled("null")
                    /\ Outcome(r) = Fulfilled("null")

(* C2: when no invoked step terminates or fails, the finished run resolves  *)
(* to undefined and has invoked every step of the registry exactly once, in *)
(* the order of the run's sequence (registry order, or its stable priority  *)
(* sort when sorting is enabled).                                           *)
C2_AllStepsRunOnce ==
    \A r \in Runs :
        /\ LoopDone(r)
        /\ run[r].mutations = 0
        /\ \A i \in 1 .. StepCount(r) : StepOut(r, i) = Fulfilled("undefined")
        => /\ Invoked(r) = run[r].snap
           /\ run[r].snap = IF options.preExecuteSortEnabled
                            THEN SortedCopy(arrays[midwares])
                            ELSE arrays[midwares]
           /\ Inner(r) = Fulfilled("undefined")
           /\ RunTimer(r) # "fired" => Outcome(r) = Fulfilled("undefined")

\* three steps, all returned undefined, the run resolved to undefined
C2_Witness ==
    \E r \in Runs : /\ LoopDone(r)
                    /\ StepCount(r) = 3
                    /\ \A i \in 1 .. 3 : StepOut(r, i) = Fulfilled("undefined")
                    /\ Outcome(r) = Fulfilled("undefined")

(* C3: steps of one run are strictly sequential: every step but the latest  *)
(* has settled for the engine, so at most one invoked step is unsettled.    *)
C3_Sequential ==
    \A r \in Runs : \A i \in 1 .. (StepCount(r) - 1) : StepOut(r, i) # Pending

\* a second or later step is awaited, every earlier one has settled
C3_Witness ==
    \E r \in Runs : /\ StepCount(r) >= 2
                    /\ run[r].pc = "await"
                    /\ StepOut(r, StepCount(r)) = Pending

(* C4 as claimed: whatever use, unshift, remove or clear is called while a  *)
(* run is in flight, the steps the run invokes are a prefix of the sequence *)
(* selected when execute was called.                                        *)
C4_SequenceFixedAtStart ==
    \A r \in Runs :
        /\ StepCount(r) <= Len(run[r].snap)
        /\ Invoked(r) = SubSeq(run[r].snap, 1, StepCount(r))

(* C5: when a step raises its own error (thrown, or rejected before any     *)
(* per-step timer fired), no later step is invoked and the sequential       *)
(* execution fails with that same error object, and so does the run (unless *)
(* its whole-run timer had already fired); wrapped steps included.          *)
C5_StepErrorPropagates ==
    \A r \in Runs : \A k \in 1 .. StepCount(r) :
        StepOut(r, k) = StepError(StepOf(r, k).fn)
        => /\ k = StepCount(r)
           /\ run[r].pc \in {"next", "done"}
           /\ LoopDone(r) => /\ Inner(r) = StepError(StepOf(r, k).fn)
                             /\ RunTimer(r) # "fired"
                                    => Outcome(r) = StepError(StepOf(r, k).fn)

\* a step registered with a timeout rejected before the timer fired, a later
\* step exists and was not invoked, the run failed with the step's error
C5_Witness ==
    \E r \in Runs : \E k \in 1 .. StepCount(r) :
        /\ IsWrapper(StepOf(r, k))
        /\ StepTimer(r, k) = "cleared"
        /\ StepOut(r, k) = StepError(StepOf(r, k).fn)
        /\ Len(run[r].snap) > k
        /\ Outcome(r) = StepError(StepOf(r, k).fn)

(* C6: a run with a whole-run timeout fails with the whole-run TimeoutError *)
(* exactly when its timer fires, which happens only while the sequential    *)
(* execution is unfinished; when the execution finishes first the run       *)
(* settles with the execution's own settlement, which is what a run without *)
(* a whole-run timeout settles with.                                        *)
C6_WholeRunTimeout ==
    \A r \in Runs :
        Started(r)
        => /\ run[r].timeout > 0
              => /\ RunTimer(r) = "fired"
                    => Outcome(r) = TimeoutError(RunTimeoutMsg, run[r].timeout)
                 /\ RunTimer(r) = "pending"
                    => Inner(r) = Pending /\ Outcome(r) = Pending
                 /\ RunTimer(r) = "cleared"
                    => Inner(r) # Pending /\ Outcome(r) = Inner(r)
                 /\ RunTimer(r) # "none"
           /\ run[r].timeout <= 0
              => RunTimer(r) = "none" /\ Outcome(r) = Inner(r)

\* the whole-run timer fired while a step was still pending
C6_Witness ==
    \E r \in Runs : /\ run[r].timeout > 0
                    /\ RunTimer(r) = "fired"
                    /\ run[r].pc = "await"
                    /\ Outcome(r) = TimeoutError(RunTimeoutMsg, run[r].timeout)

(* C7: a step registered with a per-step timeout has its timer armed while  *)
(* it is unsettled; when the timer fires the engine sees the per-step       *)
(* TimeoutError, invokes no later step and the execution fails with it;     *)
(* when the step settles first the engine sees the step's own settlement,   *)
(* as it does for a step registered without a timeout.                      *)
C7_PerStepTimeout ==
    \A r \in Runs : \A k \in 1 .. StepCount(r) :
        IF IsWrapper(StepOf(r, k))
        THEN /\ StepRes(r, k) = Pending => StepTimer(r, k) \in {"pending", "fired"}
             /\ StepTimer(r, k) = "pending" => StepOut(r, k) = Pending
             /\ StepTimer(r, k) = "fired"
                => /\ StepOut(r, k) = TimeoutError(StepTimeoutMsg, StepOf(r, k).d)
                   /\ k = StepCount(r)
                   /\ LoopDone(r) => Inner(r) = StepOut(r, k)
             /\ StepTimer(r, k) # "fired" => StepOut(r, k) = StepRes(r, k)
        ELSE StepTimer(r, k) = "none" /\ StepOut(r, k) = StepRes(r, k)

\* the per-step timer fired: the run failed with the per-step TimeoutError
\* and the step behind it was never invoked
C7_Witness ==
    \E r \in Runs : \E k \in 1 .. StepCount(r) :
        /\ StepTimer(r, k) = "fired"
        /\ Len(run[r].snap) > k
        /\ LoopDone(r)
        /\ Outcome(r) = TimeoutError(StepTimeoutMsg, StepOf(r, k).d)

\* every race of the system: the whole-run one and one per invoked step
RaceOf(rn, r, i) == IF i = 0 THEN rn[r].race ELSE rn[r].log[i].race

C8_FirstEventDecides(rc) ==
    /\ rc.timer = "pending" => rc.res = Pending /\ rc.out = Pending
    /\ rc.timer = "cleared" => rc.res # Pending /\ rc.out = rc.res
    /\ rc.timer = "fired" => rc.out.val = "TimeoutError"

(* C8: a promise returned by withTimeout settles once: with the operation's *)
(* settlement when the operation settles while the timer is pending, with   *)
(* TimeoutError when the timer fires first, and no later event changes it.  *)
C8_WrapperSettlesOnce ==
    /\ [](\A r \in Runs : \A i \in 0 .. StepCount(r) :
              C8_FirstEventDecides(RaceOf(run, r, i)))
    /\ [][\A r \in Runs : \A i \in 0 .. StepCount(r) :
              SameRun(r) /\ RaceOf(run, r, i).out # Pending
              => RaceOf(run', r, i).out = RaceOf(run, r, i).out]_vars

\* the whole-run timer fired first and the execution finished afterwards
C8_Witness ==
    \E r \in Runs : /\ RunTimer(r) = "fired"
                    /\ Inner(r) # Pending
                    /\ Outcome(r) = TimeoutError(RunTimeoutMsg, run[r].timeout)

(* C9: once the operation has settled first, the wrapper's timer is cleared *)
(* and stays cleared; a timer that fires leaves the operation as it is, and *)
(* an operation still pending then can still settle.                        *)
C9_TimerClearedOpNotStopped ==
    /\ [](\A r \in Runs : \A i \in 1 .. StepCount(r) :
              /\ StepOut(r, i) # Pending => StepTimer(r, i) # "pending"
              /\ StepTimer(r, i) = "fired" /\ StepRes(r, i) = Pending
                 => ENABLED StepSettles(r, i, Fulfilled("undefined")))
    /\ [](\A r \in Runs :
              /\ Outcome(r) # Pending => RunTimer(r) # "pending"
              /\ RunTimer(r) = "fired" /\ Inner(r) = Pending
                 => InFlight(run[r]) /\ ENABLED LoopSteps(r))
    /\ [][\A r \in Runs : \A i \in 0 .. StepCount(r) :
              SameRun(r)
              => /\ RaceOf(run, r, i).timer = "cleared"
                    => RaceOf(run', r, i).timer = "cleared"
                 /\ RaceOf(run, r, i).timer = "pending"
                      /\ RaceOf(run', r, i).timer = "fired"
                    => RaceOf(run', r, i).res = RaceOf(run, r, i).res]_vars

\* a step's work ran to completion after its per-step timer had fired
C9_Witness ==
    \E r \in Runs : \E k \in 1 .. StepCount(r) :
        /\ StepTimer(r, k) = "fired"
        /\ StepRes(r, k) = Fulfilled("val")

(* C10: when the run has failed with an error a step raised, no timer of    *)
(* the run, per-step or whole-run, is pending or has fired.                 *)
C10_NoTimerLeftAfterStepError ==
    \A r \in Runs :
        (\E f \in Fns : Outcome(r) = StepError(f))
        => /\ RunTimer(r) \in {"none", "cleared"}
           /\ \A i \in 1 .. StepCount(r) : StepTimer(r, i) \in {"none", "cleared"}

\* a run with a whole-run timer failed with the error of its second step;
\* both steps had per-step timers
C10_Witness ==
    \E r \in Runs : /\ StepCount(r) = 2
                    /\ Outcome(r) = StepError(StepOf(r, 2).fn)
                    /\ RunTimer(r) = "cleared"
                    /\ StepTimer(r, 1) = "cleared"
                    /\ StepTimer(r, 2) = "cleared"

----------------------------------------------------------------------------
\* the terminal state of an execute() call, read from its record
TerminalOf(rec) ==
    IF rec.pc = "idle" \/ (rec.race.out = Pending /\ rec.race.timer # "fired")
    THEN "Running"
    ELSE IF rec.race.timer = "fired" THEN "TimedOut"
    ELSE IF rec.race.out.kind = "rejected" THEN "Failed"
    ELSE IF rec.race.out.val = "undefined" THEN "Completed"
    ELSE "Terminated"

(* C11: a run is in at most one terminal state, the one its outcome shows   *)
(* (TimedOut: rejected with the whole-run TimeoutError; Failed: rejected    *)
(* with a step's error; Completed: undefined; Terminated: another value),   *)
(* and once in a terminal state it keeps that state and that outcome,       *)
(* whatever the steps still running in the background return or throw.      *)
C11_TerminalStateFinal ==
    /\ [](\A r \in Runs :
              /\ TerminalOf(run[r]) = "TimedOut"
                 <=> Outcome(r) = TimeoutError(RunTimeoutMsg, run[r].timeout)
              /\ TerminalOf(run[r]) = "Failed"
                 <=> /\ Outcome(r).kind = "rejected"
                     /\ Outcome(r) = Inner(r)
              /\ TerminalOf(run[r]) \in {"Completed", "Terminated"}
                 <=> /\ Outcome(r).kind = "fulfilled"
                     /\ Outcome(r) = Inner(r))
    /\ [][\A r \in Runs :
              SameRun(r) /\ TerminalOf(run[r]) # "Running"
              => /\ TerminalOf(run'[r]) = TerminalOf(run[r])
                 /\ run'[r].race.out = Outcome(r)]_vars

\* after the whole-run timeout the loop went on in the background and a
\* later step threw: the run is still TimedOut
C11_Witness ==
    \E r \in Runs : /\ TerminalOf(run[r]) = "TimedOut"
                    /\ LoopDone(r)
                    /\ StepCount(r) >= 2
                    /\ Inner(r) = StepError(StepOf(r, StepCount(r)).fn)
                    /\ Outcome(r) = TimeoutError(RunTimeoutMsg, run[r].timeout)

----------------------------------------------------------------------------
(* Vocabulary of the sorting properties *)

Registry == arrays[midwares]
\* the sequence a run selected when execute() was called
Selected(r) == run[r].snap
HasHint(e) == OrderOf(e) # NoHint
FiniteHint(e) == HasHint(e) /\ OrderOf(e) # Infinity
Positions(s) == 1 .. Len(s)
\* p says where in reg each element of sel stood
IsArrangement(p, sel, reg) ==
    /\ \A i, j \in Positions(reg) : i # j => p[i] # p[j]
    /\ \A i \in Positions(reg) : sel[i] = reg[p[i]]

\* sel is reg in ascending order of hint, steps without a hint behind all
\* steps that have one, equal hints and steps without a hint in reg's order
SortedAsClaimed(sel, reg) ==
    /\ Len(sel) = Len(reg)
    /\ \E p \in [Positions(reg) -> Positions(reg)] :
           /\ IsArrangement(p, sel, reg)
           /\ \A i, j \in Positions(sel) :
                  i < j
                  => /\ HasHint(sel[i]) /\ HasHint(sel[j])
                        => OrderOf(sel[i]) <= OrderOf(sel[j])
                     /\ ~HasHint(sel[i]) => ~HasHint(sel[j])
                     /\ OrderOf(sel[i]) = OrderOf(sel[j]) => p[i] < p[j]

\* the same with a hint of positive infinity counted as no hint
SortedInfinityLast(sel, reg) ==
    /\ Len(sel) = Len(reg)
    /\ \E p \in [Positions(reg) -> Positions(reg)] :
           /\ IsArrangement(p, sel, reg)
           /\ \A i, j \in Positions(sel) :
                  i < j
                  => /\ FiniteHint(sel[i]) /\ FiniteHint(sel[j])
                        => OrderOf(sel[i]) <= OrderOf(sel[j])
                     /\ ~FiniteHint(sel[i]) => ~FiniteHint(sel[j])
                     /\ \/ OrderOf(sel[i]) = OrderOf(sel[j])
                        \/ ~FiniteHint(sel[i]) /\ ~FiniteHint(sel[j])
                        => p[i] < p[j]

\* the run invokes the sequence it selected, from the front
RunsSelected(r) ==
    /\ StepCount(r) <= Len(Selected(r))
    /\ Invoked(r) = SubSeq(Selected(r), 1, StepCount(r))
    /\ LoopDone(r) /\ Inner(r) = Fulfilled("undefined")
       => StepCount(r) = Len(Selected(r))

(* C12 as stated: with sorting enabled a run executes the registry's steps  *)
(* in ascending order of hint, every step without a hint after every step  *)
(* that has one, equal hints and steps without a hint in registry order.    *)
C12_SortedRunAsStated ==
    \A r \in Runs :
        Started(r) /\ options.preExecuteSortEnabled
        => SortedAsClaimed(Selected(r), Registry) /\ RunsSelected(r)

(* C12 amended: with sorting enabled a run executes the registry's steps in *)
(* ascending order of hint, the steps without a hint and the steps whose    *)
(* hint is positive infinity after all steps with a finite hint, and steps  *)
(* with equal hints, as well as those without a hint or with an infinite    *)
(* one among themselves, in their relative registry order.                  *)
C12_SortedRun ==
    \A r \in Runs :
        Started(r) /\ options.preExecuteSortEnabled
        => SortedInfinityLast(Selected(r), Registry) /\ RunsSelected(r)

\* hints 10, 1, 5 on registration order A, B, C ran as B, C, A
C12_Witness ==
    /\ sortOrder = [f \in Fns |-> IF f = "A" THEN 10
                                  ELSE IF f = "B" THEN 1 ELSE 5]
    /\ options.preExecuteSortEnabled
    /\ Registry = <<Raw("A"), Raw("B"), Raw("C")>>
    /\ LoopDone(1)
    /\ Invoked(1) = <<Raw("B"), Raw("C"), Raw("A")>>

----------------------------------------------------------------------------
NotFiniteHint(e) == ~FiniteHint(e)

(* C13 as stated: in the sorted order a step without a hint comes after     *)
(* every step that has an explicit hint, positive infinity included.        *)
C13_UnhintedLastAsStated ==
    \A r \in Runs :
        Started(r) /\ options.preExecuteSortEnabled
        => \A i, j \in Positions(Selected(r)) :
               i < j /\ ~HasHint(Selected(r)[i]) => ~HasHint(Selected(r)[j])

(* C13 amended: in the sorted order a step without a hint comes after every *)
(* step that has an explicit finite hint, however large, regardless of      *)
(* registration order; a step whose explicit hint is positive infinity is   *)
(* ordered like a step without a hint: such steps keep their relative       *)
(* registry order.                                                          *)
C13_UnhintedLast ==
    \A r \in Runs :
        Started(r) /\ options.preExecuteSortEnabled
        => /\ \A i, j \in Positions(Selected(r)) :
                  i < j /\ ~HasHint(Selected(r)[i])
                  => ~FiniteHint(Selected(r)[j])
           /\ SelectSeq(Selected(r), NotFiniteHint)
                  = SelectSeq(Registry, NotFiniteHint)

\* A without a hint was registered first, then C with the hint Infinity,
\* then B with a finite hint: the run selected B, A, C
C13_Witness ==
    /\ sortOrder = [f \in Fns |-> IF f = "A" THEN NoHint
                                  ELSE IF f = "B" THEN 10 ELSE Infinity]
    /\ options.preExecuteSortEnabled
    /\ Started(1)
    /\ Registry = <<Raw("A"), Raw("C"), Raw("B")>>
    /\ Selected(1) = <<Raw("B"), Raw("A"), Raw("C")>>

----------------------------------------------------------------------------
\* the step of the system is a call of execute() as run r
ExecuteCalled(r) == run[r].pc = "idle" /\ run'[r].pc # "idle"
\* the step of the system changes the registry
RegistryMutated == midwares' # midwares \/ arrays'[midwares'] # Registry

\* the step of the system is a use, unshift or clear that returned or a
\* remove that returned true (clear() of an empty registry changes nothing
\* but the identity of the array, which shows in what the call returned)
MutationReturned ==
    ret' \in {"ok", "true"} /\ (ret' # ret \/ RegistryMutated)

(* C14: with hints that are not reassigned once a function is registered   *)
(* (C33 is about reassigned hints), a cached order that is marked valid is  *)
(* the stable priority sort of                                              *)
(* the registry as it is now; every successful use, unshift, remove and     *)
(* clear leaves the cache invalid and empty; so a run with sorting enabled  *)
(* selects the stable priority sort of the registry as it is at that        *)
(* moment, never an order cached before a mutation.                         *)
C14_CacheCoherent ==
    /\ [](sortedMidwares # Null /\ ~isDirty
              => SortedInfinityLast(arrays[sortedMidwares], Registry))
    /\ [][MutationReturned => isDirty' /\ sortedMidwares' = Null]_vars
    /\ [][\A r \in Runs :
              ExecuteCalled(r) /\ options.preExecuteSortEnabled
              => SortedInfinityLast(run'[r].snap, Registry)]_vars

\* a sorted run selected and cached B, A, C; B was removed while the run
\* was in flight: the cache is gone
C14_Witness ==
    /\ InFlight(run[1])
    /\ options.preExecuteSortEnabled
    /\ Selected(1) = <<Raw("B"), Raw("A"), Raw("C")>>
    /\ Registry = <<Raw("A"), Raw("C")>>
    /\ isDirty /\ sortedMidwares = Null

----------------------------------------------------------------------------
(* C15: once a sorted order has been computed, the cached array object is   *)
(* replaced or dropped only by a successful use, unshift, remove or clear;  *)
(* a sorted run started while it exists selects that very array, without    *)
(* sorting again and without touching the cache.                            *)
C15_SortedOnlyAfterMutation ==
    /\ [][sortedMidwares # Null /\ ~MutationReturned
              => /\ sortedMidwares' = sortedMidwares
                 /\ arrays'[sortedMidwares] = arrays[sortedMidwares]
                 /\ isDirty' = isDirty]_vars
    /\ [][\A r \in Runs :
              ExecuteCalled(r) /\ options.preExecuteSortEnabled
                  /\ sortedMidwares # Null
              => /\ run'[r].snap = arrays[sortedMidwares]
                 /\ run'[r].arr \in {sortedMidwares, Null}]_vars

\* two sorted runs with no registry call in between, both still running:
\* both iterate the one cached array
C15_Witness ==
    /\ options.preExecuteSortEnabled
    /\ InFlight(run[1]) /\ InFlight(run[2])
    /\ sortedMidwares # Null
    /\ run[1].arr = sortedMidwares /\ run[2].arr = sortedMidwares
    /\ Len(Selected(2)) >= 2

----------------------------------------------------------------------------
(* C16: with sorting disabled a run selects the registry in its raw order,  *)
(* whatever the hints, and invokes it from the front; the call of execute   *)
(* leaves the cached order and its validity flag as they were.              *)
C16_UnsortedRunIsRawOrder ==
    /\ [](\A r \in Runs :
              Started(r) /\ ~options.preExecuteSortEnabled
              => Selected(r) = Registry /\ RunsSelected(r))
    /\ [][\A r \in Runs :
              ExecuteCalled(r) /\ ~options.preExecuteSortEnabled
              => /\ run'[r].arr \in {midwares, Null}
                 /\ sortedMidwares' = sortedMidwares
                 /\ isDirty' = isDirty
                 /\ sortedMidwares # Null
                    => arrays'[sortedMidwares] = arrays[sortedMidwares]]_vars

\* A (hint 10) and B (hint 1) are registered in that order and a valid
\* cached order B, A exists; the run with sorting disabled invoked A, B
C16_Witness ==
    /\ ~options.preExecuteSortEnabled
    /\ sortOrder["A"] = 10 /\ sortOrder["B"] = 1
    /\ Registry = <<Raw("A"), Raw("B")>>
    /\ sortedMidwares # Null /\ ~isDirty
    /\ arrays[sortedMidwares] = <<Raw("B"), Raw("A")>>
    /\ LoopDone(1)
    /\ Invoked(1) = <<Raw("A"), Raw("B")>>

----------------------------------------------------------------------------
(* C17: use and unshift of something that is not a function throw the       *)
(* TypeError within the call and change nothing: the registry array, its    *)
(* contents and order, the cached order and its validity flag, the options  *)
(* and the runs are as before.                                              *)
C17_InvalidStepRejected ==
    [][\A t \in TimeoutVals :
          Use(NotAFunction, t) \/ Unshift(NotAFunction, t)
          => /\ ret' = "TypeError"
             /\ UNCHANGED <<arrays, midwares, sortedMidwares, isDirty,
                            options, run>>]_vars

\* the registration just failed with the TypeError: the registry still
\* holds its two steps and the cached order is still valid
C17_Witness ==
    /\ ret = "TypeError"
    /\ Len(Registry) = 2
    /\ sortedMidwares # Null /\ ~isDirty
    /\ Len(arrays[sortedMidwares]) = 2

----------------------------------------------------------------------------
\* reference f itself is an entry of the registry
Registered(f) == \E i \in Positions(Registry) : Registry[i] = Raw(f)
Occurrences(f) == Cardinality({i \in Positions(Registry) : Registry[i] = Raw(f)})
\* the registry after the step of the system
RegistryAfter == arrays'[midwares']
EngineUnchanged ==
    UNCHANGED <<arrays, midwares, sortedMidwares, isDirty, options, run>>

(* C18: registering without a per-step timeout (a registration with one     *)
(* stores a new wrapper and is never a duplicate).  With duplicate          *)
(* rejection enabled, use and unshift of a reference that is registered and *)
(* not exempt throw the duplicate error within the call and change nothing; *)
(* a reference marked exempt, and any reference when duplicate rejection is *)
(* disabled, is registered again.                                           *)
C18_DuplicateRejected ==
    [][\A f \in Fns :
          Use(f, 0) \/ Unshift(f, 0)
          => IF options.duplicatesCheckEnabled /\ Registered(f)
                 /\ ~duplicable[f]
             THEN ret' = "DuplicateError" /\ EngineUnchanged
             ELSE /\ ret' = "ok"
                  /\ Len(RegistryAfter) = Len(Registry) + 1
                  /\ RegistryAfter \in {Append(Registry, Raw(f)),
                                        <<Raw(f)>> \o Registry}]_vars

\* duplicate rejection has been enabled since construction: exempt A was
\* registered twice, B once, and the second registration of B just failed
C18_Witness ==
    /\ options.duplicatesCheckEnabled
    /\ duplicable["A"] /\ ~duplicable["B"]
    /\ Occurrences("A") = 2 /\ Occurrences("B") = 1
    /\ ret = "DuplicateError"

----------------------------------------------------------------------------
OccurrencesIn(reg, f) == Cardinality({i \in Positions(reg) : reg[i] = Raw(f)})
\* no reference that is not exempt occurs more than once
DuplicateFree(reg) == \A f \in Fns : OccurrencesIn(reg, f) <= 1 \/ duplicable[f]

(* C19 as stated: in every reachable state, whenever duplicate checking is  *)
(* enabled no reference occurs more than once in the registry unless it is  *)
(* marked exempt.                                                           *)
C19_NoDuplicatesAsStated ==
    options.duplicatesCheckEnabled => DuplicateFree(Registry)

(* C19 amended: while duplicate checking is enabled no call adds a further  *)
(* occurrence of a reference that is registered and not exempt, so a        *)
(* registry without such duplicates keeps none for as long as checking      *)
(* stays enabled; the duplicates registered while checking was disabled     *)
(* stay in the registry when checking is enabled afterwards.                *)
C19_NoDuplicateAdded ==
    /\ [][options.duplicatesCheckEnabled
              => \A f \in Fns :
                     OccurrencesIn(RegistryAfter, f) > Occurrences(f)
                     => Occurrences(f) = 0 \/ duplicable[f]]_vars
    /\ [][options.duplicatesCheckEnabled /\ DuplicateFree(Registry)
              => DuplicateFree(RegistryAfter)]_vars
    /\ [][~options.duplicatesCheckEnabled /\ options'.duplicatesCheckEnabled
              => RegistryAfter = Registry]_vars

\* A, not exempt, was registered twice while checking was disabled; with
\* checking enabled since, a third registration of A has just been rejected
C19_Witness ==
    /\ options.duplicatesCheckEnabled
    /\ ~duplicable["A"]
    /\ Occurrences("A") = 2
    /\ ret = "DuplicateError"

----------------------------------------------------------------------------
\* the references registered, as a list a caller could pass
ReferencesOf(reg) == [i \in Positions(reg) |-> reg[i].fn]

(* C20: the registry of an engine that was constructed with a list and then *)
(* extended by use calls is what the constructor leaves for the list of all *)
(* those references in order; and a use call throws exactly when, and what, *)
(* the constructor throws for the list that ends with its argument: the     *)
(* TypeError for a non-callable, the duplicate error for a repeated         *)
(* reference that is not exempt while duplicate rejection is enabled.       *)
C20_ConstructorIsUseForEach ==
    /\ [](Constructor(ReferencesOf(Registry), options.duplicatesCheckEnabled)
              = [ret |-> "ok", midwares |-> Registry])
    /\ [][\A m \in Args :
              Use(m, 0)
              => LET made == Constructor(Append(ReferencesOf(Registry), m),
                                         options.duplicatesCheckEnabled)
                 IN  /\ made.ret = ret'
                     /\ ret' = "ok" => made.midwares = RegistryAfter
                     /\ ret' # "ok" => RegistryAfter = Registry]_vars

\* with duplicate rejection enabled the registry holds A and B, and use(A)
\* has just failed as new Midware([A, B, A]) does
C20_Witness ==
    /\ options.duplicatesCheckEnabled
    /\ Registry = <<Raw("A"), Raw("B")>>
    /\ ret = "DuplicateError"
    /\ Constructor(<<"A", "B", "A">>, TRUE).ret = "DuplicateError"
    /\ Constructor(<<"A", "B">>, TRUE).midwares = Registry

----------------------------------------------------------------------------
(* C21: a use that returns leaves the registry as it was with one entry for *)
(* the step added behind the last entry, an unshift that returns with one   *)
(* added before the first; and a run started with sorting disabled selects  *)
(* the registry as those calls left it, entry by entry.                     *)
C21_InsertAtEndOrStart ==
    /\ [][\A m \in Fns, t \in TimeoutVals :
              Use(m, t) /\ ret' = "ok"
              => /\ Len(RegistryAfter) = Len(Registry) + 1
                 /\ SubSeq(RegistryAfter, 1, Len(Registry)) = Registry
                 /\ RegistryAfter[Len(RegistryAfter)].fn = m]_vars
    /\ [][\A m \in Fns, t \in TimeoutVals :
              Unshift(m, t) /\ ret' = "ok"
              => /\ Len(RegistryAfter) = Len(Registry) + 1
                 /\ SubSeq(RegistryAfter, 2, Len(RegistryAfter)) = Registry
                 /\ RegistryAfter[1].fn = m]_vars
    /\ [][\A r \in Runs :
              ExecuteCalled(r) /\ ~options.preExecuteSortEnabled
              => /\ Len(run'[r].snap) = Len(Registry)
                 /\ \A i \in Positions(Registry) :
                        run'[r].snap[i] = Registry[i]]_vars

\* C was put before A and B; the run with sorting disabled invoked C, A, B
\* although the hints (A 10, B 1, C none) would sort them B, A, C
C21_Witness ==
    /\ ~options.preExecuteSortEnabled
    /\ Registry = <<Raw("C"), Raw("A"), Raw("B")>>
    /\ LoopDone(1)
    /\ Inner(1) = Fulfilled("undefined")
    /\ Invoked(1) = <<Raw("C"), Raw("A"), Raw("B")>>

----------------------------------------------------------------------------
\* reg without its entry at position k
Without(reg, k) ==
    [i \in 1 .. (Len(reg) - 1) |-> IF i < k THEN reg[i] ELSE reg[i + 1]]

(* C22: remove(step) returns true when an entry of the registry is that     *)
(* reference: the registry is then as before without the first such entry,  *)
(* and the cache is invalid; otherwise it returns false and the registry,   *)
(* the cached order and its validity are as before.                         *)
C22_RemoveFirstOccurrence ==
    [][\A f \in Fns :
          Remove(f)
          => IF Registered(f)
             THEN /\ ret' = "true"
                  /\ \E k \in Positions(Registry) :
                         /\ Registry[k] = Raw(f)
                         /\ \A j \in 1 .. (k - 1) : Registry[j] # Raw(f)
                         /\ RegistryAfter = Without(Registry, k)
                  /\ isDirty' /\ sortedMidwares' = Null
             ELSE ret' = "false" /\ EngineUnchanged]_vars

\* the run selected A, B, A and is still running; remove(A) has returned
\* true since: the registry is B, A
C22_Witness ==
    /\ InFlight(run[1])
    /\ run[1].mutations = 1
    /\ Selected(1) = <<Raw("A"), Raw("B"), Raw("A")>>
    /\ Registry = <<Raw("B"), Raw("A")>>
    /\ ret = "true"

----------------------------------------------------------------------------
\* f is registered, but only as wrappers made for a per-step timeout
WrappedOnly(f) ==
    /\ ~Registered(f)
    /\ \E i \in Positions(Registry) :
           Registry[i].fn = f /\ IsWrapper(Registry[i])
CountOf(reg, e) == Cardinality({i \in Positions(reg) : reg[i] = e})

(* C23: remove(f) of a reference that is registered only with a positive    *)
(* per-step timeout returns false and leaves the registry and the cache as  *)
(* they are; a run started afterwards selects every wrapper of the registry *)
(* and, when no step ends it early and the registry is not mutated          *)
(* meanwhile, invokes all it selected.                                      *)
C23_RemoveOfWrappedFails ==
    /\ [][\A f \in Fns :
              Remove(f) /\ WrappedOnly(f)
              => ret' = "false" /\ RegistryAfter = Registry
                 /\ EngineUnchanged]_vars
    /\ [][\A r \in Runs :
              ExecuteCalled(r)
              => \A i \in Positions(Registry) :
                     IsWrapper(Registry[i])
                     => CountOf(run'[r].snap, Registry[i])
                            = CountOf(Registry, Registry[i])]_vars
    /\ [](\A r \in Runs :
              /\ LoopDone(r) /\ run[r].mutations = 0
              /\ Inner(r) = Fulfilled("undefined")
              => Invoked(r) = Selected(r))

\* B is registered as it is and would be removed; the last remove returned
\* false, so it was remove(A), made while this run was in flight; the run
\* has invoked the wrapper of A
C23_Witness ==
    /\ ret = "false"
    /\ Registry = <<Raw("B"), Raw("C"), Wrapped("A", 20)>>
    /\ LoopDone(1) /\ run[1].mutations = 0
    /\ Invoked(1) = <<Raw("B"), Raw("C"), Wrapped("A", 20)>>
    /\ StepTimer(1, 3) = "cleared"

----------------------------------------------------------------------------
(* C24: with duplicate rejection enabled, use and unshift with a positive   *)
(* per-step timeout never throw the duplicate error, whether the reference  *)
(* is registered as it is, wrapped, both or not at all: they store a new    *)
(* wrapper; and use and unshift without a timeout store the reference when  *)
(* the registry holds it only inside wrappers.                              *)
C24_WrappedNeverDuplicate ==
    /\ [][\A f \in Fns, t \in TimeoutVals \ {0} :
              options.duplicatesCheckEnabled
              /\ (Use(f, t) \/ Unshift(f, t))
              => /\ ret' = "ok"
                 /\ RegistryAfter \in {Append(Registry, Wrapped(f, t)),
                                       <<Wrapped(f, t)>> \o Registry}]_vars
    /\ [][\A f \in Fns :
              options.duplicatesCheckEnabled /\ ~Registered(f)
              /\ (Use(f, 0) \/ Unshift(f, 0))
              => /\ ret' = "ok"
                 /\ RegistryAfter \in {Append(Registry, Raw(f)),
                                       <<Raw(f)>> \o Registry}]_vars

\* duplicate rejection is on and A is not exempt: A was registered wrapped,
\* then as it is, then wrapped again
C24_Witness ==
    /\ options.duplicatesCheckEnabled /\ ~duplicable["A"]
    /\ ret = "ok"
    /\ Registry = <<Wrapped("A", 20), Raw("A"), Wrapped("A", 20)>>

----------------------------------------------------------------------------
(* C25: clear() leaves an empty registry and an invalid cache.  A run       *)
(* started on an empty registry, sorting enabled or not, is fulfilled with  *)
(* undefined at once and has invoked nothing; and every run selects exactly *)
(* the entries the registry holds when it starts (after a clear: those      *)
(* registered since) and invokes nothing it did not select.                 *)
C25_ClearEmpties ==
    /\ [][Clear => /\ RegistryAfter = <<>>
                   /\ isDirty' /\ sortedMidwares' = Null]_vars
    /\ [][\A r \in Runs :
              ExecuteCalled(r)
              => /\ \A f \in Fns : CountOf(run'[r].snap, Raw(f))
                                        = CountOf(Registry, Raw(f))
                 /\ Len(run'[r].snap) = Len(Registry)
                 /\ Registry = <<>>
                    => /\ run'[r].pc = "done"
                       /\ run'[r].log = <<>>
                       /\ run'[r].race.out = Fulfilled("undefined")]_vars
    /\ [](\A r \in Runs : \A i \in 1 .. StepCount(r) :
              CountOf(Selected(r), StepOf(r, i)) > 0)

\* run 1 still iterates the array the registry was before clear() replaced
\* it; run 2, started after the clear, is fulfilled with undefined and has
\* invoked nothing
C25_Witness ==
    /\ InFlight(run[1])
    /\ run[1].arr # midwares
    /\ arrays[run[1].arr] = <<Raw("A"), Raw("B")>>
    /\ Registry = <<>>
    /\ LoopDone(2)
    /\ Invoked(2) = <<>>
    /\ Outcome(2) = Fulfilled("undefined")

----------------------------------------------------------------------------
\* the run failed with a TimeoutError
TimedOut(r) == Outcome(r).val = "TimeoutError"
\* the message is the wrapper's default, which spells out the duration
MentionsDuration(msg) ==
    Len(msg) = 3 /\ msg[2] \in TimeoutVals \ {0}

(* C26 as stated: the message of every TimeoutError that fails a run        *)
(* includes the configured duration.                                        *)
C26_MessageHasDurationAsStated ==
    \A r \in Runs : TimedOut(r) => MentionsDuration(Outcome(r).msg)

(* C26: a TimeoutError that fails a run carries the fixed message the       *)
(* engine passes to the wrapper, "Execution timed out" when the whole-run   *)
(* timer fired and "Middleware execution timed out" when the timer of a     *)
(* step did; neither names the duration.                                    *)
C26_FixedMessage ==
    \A r \in Runs :
        /\ RunTimer(r) = "fired" => Outcome(r).msg = <<RunTimeoutMsg>>
        /\ TimedOut(r) /\ RunTimer(r) # "fired"
           => /\ Outcome(r).msg = <<StepTimeoutMsg>>
              /\ \E i \in 1 .. StepCount(r) : StepTimer(r, i) = "fired"
        /\ TimedOut(r) => ~MentionsDuration(Outcome(r).msg)

\* the step registered with a 20 ms timeout did not settle in time and the
\* run, which has no timeout of its own, failed with its TimeoutError
C26_Witness ==
    /\ LoopDone(1)
    /\ run[1].timeout = 0
    /\ StepCount(1) = 1
    /\ StepOf(1, 1) = Wrapped("A", 20)
    /\ StepTimer(1, 1) = "fired"
    /\ Outcome(1) = StepOut(1, 1)
    /\ TimedOut(1)

----------------------------------------------------------------------------
(* C27: use and unshift with a timeout of zero or less store the reference  *)
(* they were given, so that a later registration of it is rejected as a     *)
(* duplicate and remove of it returns true; a step stored as it is runs     *)
(* without a timer; and a run started with a timeout of zero or less has no *)
(* timer: its outcome is that of the sequential execution, never the        *)
(* whole-run TimeoutError, however long a step stays pending.               *)
C27_NoTimeoutWhenNotPositive ==
    /\ [][\A f \in Fns, t \in Durations :
              t <= 0 /\ (Use(f, t) \/ Unshift(f, t))
              => IF Registered(f)
                 THEN ret' = "DuplicateError" /\ EngineUnchanged
                 ELSE /\ ret' = "ok"
                      /\ RegistryAfter \in {Append(Registry, Raw(f)),
                                            <<Raw(f)>> \o Registry}]_vars
    /\ [][\A f \in Fns : Remove(f) /\ Registered(f) => ret' = "true"]_vars
    /\ [](\A r \in Runs :
              /\ \A i \in 1 .. StepCount(r) :
                     ~IsWrapper(StepOf(r, i)) => StepTimer(r, i) = "none"
              /\ run[r].timeout <= 0
                 => /\ RunTimer(r) = "none"
                    /\ Outcome(r) = Inner(r)
                    /\ Outcome(r).msg # <<RunTimeoutMsg>>)

\* a run started with timeout -5 waits for a step that was stored as it is
\* and stays pending; no timer is armed, so nothing but the step can end it
C27_Witness ==
    /\ run[1].timeout = -5
    /\ run[1].pc = "await"
    /\ Registry = <<Raw("A")>>
    /\ Invoked(1) = <<Raw("A")>>
    /\ StepRes(1, 1) = Pending
    /\ Outcome(1) = Pending
    /\ ~ENABLED TimerSteps(1)

----------------------------------------------------------------------------
(* C28: every execute selects by the value preExecuteSortEnabled has at the *)
(* call: the stable priority sort of the registry as it is at the call      *)
(* (whatever was cached before sorting was last disabled), or the registry  *)
(* itself; and every use and unshift without a per-step timeout rejects a   *)
(* duplicate exactly when duplicatesCheckEnabled is true at the call.       *)
C28_OptionsReadFresh ==
    /\ [][\A r \in Runs :
              ExecuteCalled(r)
              => run'[r].snap = IF options.preExecuteSortEnabled
                                THEN SortedCopy(Registry)
                                ELSE Registry]_vars
    /\ [][\A f \in Fns :
              Use(f, 0) \/ Unshift(f, 0)
              => (ret' = "DuplicateError"
                     <=> /\ options.duplicatesCheckEnabled
                         /\ Registered(f) /\ ~duplicable[f])]_vars

\* the engine was constructed with both options off; both are on now, and
\* the run, started since, took the sorted order B, A of the registry A, B
C28_Witness ==
    /\ options.preExecuteSortEnabled /\ options.duplicatesCheckEnabled
    /\ Registry = <<Raw("A"), Raw("B")>>
    /\ LoopDone(1)
    /\ Selected(1) = <<Raw("B"), Raw("A")>>
    /\ Invoked(1) = Selected(1)

----------------------------------------------------------------------------
\* the parameters invocation i of run r was called with
Received(r, i) == run[r].log[i].args

(* C29: every step a run invokes is called with the same parameters: the    *)
(* elements of the array the caller passed to execute, or, when the caller  *)
(* passed something that is not an array, that one value.                   *)
C29_SharedArguments ==
    /\ [][\A r \in Runs, a \in ArgValues :
              (\E b \in SyncBehaviours : ExecuteArgs(r, a, 0, b))
              => run'[r].args.elems = IF a.array THEN a.elems ELSE <<a>>]_vars
    /\ [](\A r \in Runs : \A i \in 1 .. StepCount(r) :
              Received(r, i) = run[r].args.elems)
    /\ [][\A r \in Runs : SameRun(r) => run'[r].args = run[r].args]_vars

\* execute(ctx) with ctx not an array: both steps were called with ctx as
\* their only parameter
C29_Witness ==
    /\ LoopDone(1)
    /\ StepCount(1) = 2
    /\ Received(1, 1) = <<Scalar("ctx")>>
    /\ Received(1, 2) = <<Scalar("ctx")>>

----------------------------------------------------------------------------
(* C30 as stated: with sorting enabled, a step registered with a positive   *)
(* per-step timeout is ordered after every step that has a hint.            *)
C30_WrapperAfterHintedAsStated ==
    [][\A r \in Runs :
          ExecuteCalled(r) /\ options.preExecuteSortEnabled
          => \A i, j \in Positions(run'[r].snap) :
                 i < j /\ IsWrapper(run'[r].snap[i])
                 => ~HasHint(run'[r].snap[j])]_vars

(* C30 amended: with sorting enabled, a step registered with a positive     *)
(* per-step timeout is ordered as a step without a hint, whatever hint the  *)
(* function it wraps has: after every step with a finite hint, and in       *)
(* registry order among the wrappers, the steps without a hint and the      *)
(* steps whose hint is positive infinity.                                   *)
C30_WrapperOrderedUnhinted ==
    [][\A r \in Runs :
          ExecuteCalled(r) /\ options.preExecuteSortEnabled
          => /\ \A i, j \in Positions(run'[r].snap) :
                    i < j /\ IsWrapper(run'[r].snap[i])
                    => ~FiniteHint(run'[r].snap[j])
             /\ SelectSeq(run'[r].snap, NotFiniteHint)
                    = SelectSeq(Registry, NotFiniteHint)]_vars

\* A has the hint 1 and B the hint 5; A was registered first, with a
\* timeout: the run selected B before the wrapper of A
C30_Witness ==
    /\ sortOrder["A"] = 1 /\ sortOrder["B"] = 5
    /\ options.preExecuteSortEnabled
    /\ Started(1) /\ run[1].mutations = 0
    /\ Registry = <<Wrapped("A", 20), Raw("B")>>
    /\ Selected(1) = <<Raw("B"), Wrapped("A", 20)>>

----------------------------------------------------------------------------
\* the whole-run timer fired: the run has failed with its TimeoutError
RunTimedOut(r) == RunTimer(r) = "fired"

(* C31: in a run during which the registry is not mutated, after the        *)
(* whole-run timer has fired and failed the run, the loop goes on: what it  *)
(* has invoked is a prefix of the selected sequence, whenever the awaited   *)
(* step has settled with undefined the next iteration can be taken, and the *)
(* loop ends only behind the last selected step or at a step that returned  *)
(* something other than undefined or threw.                                 *)
C31_LoopOutlivesTimeout ==
    \A r \in Runs :
        RunTimedOut(r)
        => /\ Outcome(r) = TimeoutError(RunTimeoutMsg, run[r].timeout)
           /\ RunsSelected(r)
           /\ /\ run[r].pc = "next"
              /\ LastOut(run[r]) = Fulfilled("undefined")
              => ENABLED (\E b \in Behaviours : LoopNext(r, b))
           /\ LoopDone(r) /\ Inner(r) # Fulfilled("undefined")
              => /\ StepCount(r) > 0
                 /\ Inner(r) = StepOut(r, StepCount(r))
           /\ \A i \in 1 .. (StepCount(r) - 1) :
                  StepOut(r, i) = Fulfilled("undefined")

\* the wrapper of A threw when it was called (it armed no timer), so the
\* whole-run timer fired while B was pending: the wrapper was invoked after
\* the run had failed, once B had settled with undefined
C31_Witness ==
    /\ RunTimedOut(1)
    /\ LoopDone(1)
    /\ Selected(1) = <<Raw("B"), Wrapped("A", 20)>>
    /\ StepCount(1) = 2
    /\ StepOut(1, 1) = Fulfilled("undefined")
    /\ StepRes(1, 2) = StepError("A") /\ StepTimer(1, 2) = "none"
    /\ Outcome(1) = TimeoutError(RunTimeoutMsg, 20)

----------------------------------------------------------------------------
\* the step of the system belongs to run r: the call of execute() or a step
\* of its loop, its timers or its caller letting go of it
RunStep(r) ==
    \/ ExecuteCalled(r)
    \/ /\ Started(r)
       /\ run'[r] # run[r]
       /\ run'[r].mutations = run[r].mutations

(* C32: no step of a run, the call of execute() included, changes the       *)
(* registry array, its contents or their order, nor the options; so a run   *)
(* started with sorting disabled takes the registry in insertion order      *)
(* however many sorted runs came before it.                                 *)
C32_ExecuteLeavesRegistry ==
    /\ [][\A r \in Runs :
              RunStep(r)
              => /\ midwares' = midwares
                 /\ RegistryAfter = Registry
                 /\ UNCHANGED <<options, sortOrder, duplicable>>]_vars
    /\ [][\A r \in Runs :
              ExecuteCalled(r) /\ ~options.preExecuteSortEnabled
              => run'[r].snap = Registry]_vars

\* the cache still holds B, A, the order a sorted run took of the registry
\* A, B; sorting has been disabled since and the run under way selected A, B
C32_Witness ==
    /\ sortOrder["A"] = 10 /\ sortOrder["B"] = 1
    /\ ~isDirty /\ sortedMidwares # Null
    /\ arrays[sortedMidwares] = <<Raw("B"), Raw("A")>>
    /\ ~options.preExecuteSortEnabled
    /\ Started(1)
    /\ Registry = <<Raw("A"), Raw("B")>>
    /\ Selected(1) = <<Raw("A"), Raw("B")>>

----------------------------------------------------------------------------
\* the cache holds an order and is marked valid
CacheValid == ~isDirty /\ sortedMidwares # Null

(* C33: assigning a hint to a function leaves the cached order and its      *)
(* validity as they are; a sorted run started while the cache is valid      *)
(* takes the cached order, whatever the hints are by then; and a valid      *)
(* cache is given up only by a use, unshift, remove or clear that returned. *)
C33_HintChangeKeepsCache ==
    /\ [][\A f \in Fns, h \in AssignedHints :
              SetHint(f, h)
              => UNCHANGED <<arrays, midwares, sortedMidwares, isDirty>>]_vars
    /\ [][\A r \in Runs :
              ExecuteCalled(r) /\ options.preExecuteSortEnabled /\ CacheValid
              => /\ run'[r].snap = arrays[sortedMidwares]
                 /\ UNCHANGED <<sortedMidwares, isDirty>>]_vars
    /\ [][CacheValid /\ ~CacheValid' => MutationReturned]_vars

\* by the hints as they are now B (1) goes before A (5), but the run under
\* way took the order A, B that was cached before the hints were changed
C33_Witness ==
    /\ sortOrder["A"] = 5 /\ sortOrder["B"] = 1
    /\ options.preExecuteSortEnabled
    /\ CacheValid
    /\ Registry = <<Raw("A"), Raw("B")>>
    /\ arrays[sortedMidwares] = <<Raw("A"), Raw("B")>>
    /\ Started(1)
    /\ Selected(1) = <<Raw("A"), Raw("B")>>
    /\ Selected(1) # SortedCopy(Registry)

----------------------------------------------------------------------------
\* the promise execute() returned for run r has settled
Settled(r) == Outcome(r) # Pending
\* run r waits for a step that was registered without a timeout and whose
\* promise is pending
AwaitsUnwrapped(r) ==
    /\ run[r].pc = "await"
    /\ ~IsWrapper(StepOf(r, StepCount(r)))
    /\ StepRes(r, StepCount(r)) = Pending

(* C34: with timers that fire when due and no registry call during a run:   *)
(* a run started with a positive whole-run timeout settles, whatever its    *)
(* steps do; a run started without one settles unless from some point on    *)
(* it waits for ever for a step registered without a timeout; and while it  *)
(* waits for such a step it has not settled and no timer is left to end the *)
(* wait.                                                                    *)
C34_RunsSettle ==
    /\ \A r \in {1} :
           (Started(r) /\ run[r].timeout > 0) ~> Settled(r)
    /\ \A r \in {1} :
           \/ <>[]AwaitsUnwrapped(r)
           \/ (Started(r) /\ run[r].timeout <= 0) ~> Settled(r)
    /\ [](\A r \in Runs :
              run[r].timeout <= 0 /\ AwaitsUnwrapped(r)
              => ~Settled(r) /\ ~ENABLED TimerSteps(r))

\* the run was started with a timeout of 20 ms and has failed with the
\* TimeoutError, while its step, registered without a timeout, is pending
C34_Witness ==
    /\ run[1].timeout = 20
    /\ AwaitsUnwrapped(1)
    /\ Settled(1)
    /\ Outcome(1) = TimeoutError(RunTimeoutMsg, 20)

----------------------------------------------------------------------------
\* a timer the wrapper armed for a step of run r is pending
StepTimerPending(r) ==
    \E i \in 1 .. StepCount(r) : StepTimer(r, i) = "pending"

(* C35 as stated: whenever a run has settled, no timer armed for it, for    *)
(* the whole run or for a step, is pending (so none is armed afterwards).   *)
C35_NoTimerOnceSettledAsStated ==
    \A r \in Runs :
        Settled(r) => RunTimer(r) # "pending" /\ ~StepTimerPending(r)

(* C35 amended: once a run has settled its whole-run timer is not pending;  *)
(* when it settled by the sequential execution (a value, undefined, a step  *)
(* error or a per-step TimeoutError) its loop has ended and no timer of a   *)
(* step is pending; when it settled by the whole-run TimeoutError the loop  *)
(* goes on, and the timer of the step it is waiting for, armed before or    *)
(* after the run settled, may be pending; no other step's timer is, and     *)
(* none is once the loop has ended.                                         *)
C35_TimersOnceSettled ==
    \A r \in Runs :
        /\ Settled(r) => RunTimer(r) # "pending"
        /\ Settled(r) /\ ~RunTimedOut(r)
           => LoopDone(r) /\ ~StepTimerPending(r)
        /\ LoopDone(r) => RunTimer(r) # "pending" /\ ~StepTimerPending(r)
        /\ \A i \in 1 .. (StepCount(r) - 1) : StepTimer(r, i) # "pending"
        /\ StepTimerPending(r) => run[r].pc = "await"

\* the run has failed with the whole-run TimeoutError; its loop went on
\* from B to the wrapper of A, whose timer is pending
C35_Witness ==
    /\ RunTimedOut(1)
    /\ Outcome(1) = TimeoutError(RunTimeoutMsg, 20)
    /\ StepCount(1) = 2
    /\ StepOf(1, 1) = Raw("B") /\ StepOut(1, 1) = Fulfilled("undefined")
    /\ StepOf(1, 2) = Wrapped("A", 20)
    /\ StepTimer(1, 2) = "pending"

----------------------------------------------------------------------------
(* C36: of two overlapping runs, a step of one (its call of execute, an     *)
(* iteration of its loop, the settling of one of its steps, one of its      *)
(* timers) leaves the record of the other and the array the other iterates  *)
(* as they are; each run invokes a prefix of the sequence it selected, one  *)
(* step at a time, each with the argument of its own call; and its outcome  *)
(* is that of its own timer or of its own loop: the result of the last step *)
(* it invoked.                                                              *)
C36_RunsIndependent ==
    /\ [][\A r \in Runs :
              RunStep(r) => \A q \in Runs \ {r} : run'[q] = run[q]]_vars
    /\ [][\A q \in Runs :
              InFlight(run[q]) /\ InFlight(run'[q])
              => /\ run'[q].arr = run[q].arr
                 /\ arrays'[run'[q].arr] = arrays[run[q].arr]
                 /\ run'[q].snap = run[q].snap]_vars
    /\ [](\A r \in Runs :
              /\ RunsSelected(r)
              /\ \A i \in 1 .. StepCount(r) : Received(r, i) = <<OwnArgs(r)>>
              /\ \A i \in 1 .. (StepCount(r) - 1) :
                     StepOut(r, i) = Fulfilled("undefined")
              /\ LoopDone(r)
                 => Inner(r) = IF StepCount(r) = 0 THEN Fulfilled("undefined")
                               ELSE StepOut(r, StepCount(r))
              /\ Settled(r)
                 => Outcome(r) = IF RunTimedOut(r)
                                 THEN TimeoutError(RunTimeoutMsg, run[r].timeout)
                                 ELSE Inner(r))

\* both runs are in flight: run 2, which selected three steps, has failed
\* with its whole-run TimeoutError while waiting for its first; run 1, which
\* selected two, is pending at its second, called with its own argument
C36_Witness ==
    /\ run[1].pc = "await" /\ run[2].pc = "await"
    /\ Selected(1) = <<Raw("A"), Raw("A")>>
    /\ Selected(2) = <<Raw("A"), Raw("A"), Raw("A")>>
    /\ RunTimedOut(2) /\ StepCount(2) = 1
    /\ Received(2, 1) = <<Scalar("y")>>
    /\ StepCount(1) = 2
    /\ Received(1, 2) = <<Scalar("x")>>
    /\ Outcome(1) = Pending

====
